---- MODULE Spec2Model ----
(***************************************************************************)
(* Model of the NSIS installer target of electron-builder                  *)
(* (packages/app-builder-lib/src/targets/nsis/NsisTarget.ts).              *)
(*                                                                         *)
(* One NsisTarget object is modelled: its archs map, the BuildUnits made   *)
(* by buildInstaller(), the build queue, the files its sub-builds leave on *)
(* disk, and the external processes each BuildUnit starts.                 *)
(***************************************************************************)
EXTENDS Integers, Sequences, FiniteSets, TLC

(***************************************************************************)
(* Bounds of the model.                                                    *)
(***************************************************************************)
\* how many architectures the packager asks this target to build
MaxArchs == 2
\* horizon of the ghost counters of ensureNotBusy (they saturate here)
MaxBusy == 3

\* NsisTarget.ts:433  while (!(await exists(uninstallerPath)) && i++ < 100)
PollLimit == 100

\* the architectures, in the order the packager iterates them
ArchOrder == <<"x64", "ia32", "arm64", "armv7l">>

Min(a, b) == IF a < b THEN a ELSE b

Archs == {ArchOrder[i] : i \in 1..Min(MaxArchs, Len(ArchOrder))}

ArchIndex(a) == CHOOSE i \in 1..Len(ArchOrder) : ArchOrder[i] = a

(***************************************************************************)
(* Values of defines.  A define is a key with a string value, a key with   *)
(* null (a bare flag), or a key that was assigned undefined.               *)
(***************************************************************************)
Null == "<null>"
Undefined == "<undefined>"

NoDefines == [k \in {} |-> Null]

Put(d, k, v) == [x \in (DOMAIN d) \cup {k} |-> IF x = k THEN v ELSE d[x]]

Delete(d, k) == [x \in (DOMAIN d) \ {k} |-> d[x]]

Has(d, k) == k \in DOMAIN d

(***************************************************************************)
(* Options (nsisOptions.ts) and the host the build runs on.                *)
(***************************************************************************)
\* this.name: the installer, the portable executable, or the web installer of
\* the subclass that answers isWebInstaller with true
Targets == {"nsis", "portable", "nsis-web"}
Hosts == {"win32", "catalina", "linux"}
ArtifactNames == {"default", "withArch", "withoutArch"}
Tri == {"unset", "true", "false"}
\* PortableOptions.unpackDirName?: string | boolean
UnpackDirNames == {"unset", "false", "true", "dir"}
\* options.guid as the sequence of its pieces, a backslash being a piece of its
\* own: unset, a configured string, or a configured string with two backslashes
Guids == {<<>>, <<"configured-guid">>, <<"vendor", "\\", "app", "\\", "guid">>}
\* appInfo.shortVersion: unset, or the short version of the application
ShortVersions == {Null, "shortVersion"}
\* appInfo.id
AppIds == {"com.a", "com.b"}

\* every option the model reads
OptionFields ==
  [ target : Targets,
    buildUniversalInstaller : BOOLEAN,
    artifactName : ArtifactNames,
    oneClick : BOOLEAN,
    allowElevation : Tri,
    allowToAddShortcut : BOOLEAN,
    allowToChangeInstallationDirectory : BOOLEAN,
    removeDefaultUninstallWelcomePage : BOOLEAN,
    useZip : BOOLEAN,
    perMachine : BOOLEAN,
    packElevateHelper : Tri,
    differentialPackage : BOOLEAN,
    unpackDirName : UnpackDirNames,
    guid : Guids ]

\* a portable target has only PortableOptions: the installer options are unset
\* and an installer has only NsisOptions
IsPortableShape(o) ==
  /\ o.target = "portable" =>
       /\ o.oneClick
       /\ o.allowElevation = "unset"
       /\ ~o.allowToAddShortcut
       /\ ~o.allowToChangeInstallationDirectory
       /\ ~o.removeDefaultUninstallWelcomePage
       /\ ~o.perMachine
       /\ o.packElevateHelper = "unset"
       /\ o.differentialPackage
  /\ o.target # "portable" => o.unpackDirName = "unset"

\* the options of a target that is no web installer
AllOptions == {o \in OptionFields : IsPortableShape(o) /\ o.target # "nsis-web"}

\* the options of the update information and of the identifiers are unset
MetaDefaults(o) ==
  /\ ~o.perMachine
  /\ o.packElevateHelper = "unset"
  /\ o.differentialPackage
  /\ o.unpackDirName = "unset"
  /\ o.guid = <<>>

\* the assisted-only options are unset
AssistedDefaults(o) ==
  /\ o.allowElevation = "unset"
  /\ ~o.allowToAddShortcut
  /\ ~o.allowToChangeInstallationDirectory
  /\ ~o.removeDefaultUninstallWelcomePage

\* options with the define-only ones at their defaults
SchedOptions ==
  {o \in AllOptions :
     /\ o.oneClick
     /\ o.allowElevation = "unset"
     /\ ~o.allowToAddShortcut
     /\ ~o.removeDefaultUninstallWelcomePage
     /\ o.artifactName # "withoutArch"
     /\ ~o.useZip
     /\ MetaDefaults(o)}

\* options with the default artifact name: the target, the modes and the
\* assisted-only options vary
UnitOptions ==
  {o \in AllOptions :
     /\ o.artifactName = "default"
     /\ MetaDefaults(o)}

\* options with the default artifact name: the target, the modes and the
\* options of the update information and of the identifiers vary
MetaOptions ==
  {o \in AllOptions :
     /\ o.artifactName = "default"
     /\ ~o.useZip
     /\ AssistedDefaults(o)}

\* options of a universal installer, all at their defaults
SizeOptions ==
  {o \in SchedOptions :
     /\ o.target = "nsis"
     /\ o.buildUniversalInstaller
     /\ o.artifactName = "default"
     /\ ~o.allowToChangeInstallationDirectory}

\* options of an installer or of a web installer, all else at the defaults
NotifyOptions ==
  {o \in OptionFields :
     /\ o.target \in {"nsis", "nsis-web"}
     /\ o.oneClick
     /\ o.artifactName = "default"
     /\ ~o.useZip
     /\ AssistedDefaults(o)
     /\ MetaDefaults(o)}

\* what the 7za listing of a package says: nothing that parses, or a size
ListingSizes == {1536, 2048}
\* the listing has no line that matches /(\d+)\s+\d+\s+\d+\s+files/
Unparsed == 0 - 1
Listings == {Unparsed} \cup ListingSizes

VARIABLES
  options,        \* this.options
  host,           \* process.platform / isMacOsCatalina()
  requested,      \* the architectures the packager builds, in its order
  appInfo,        \* packager.appInfo
  archiveInfo,    \* per architecture, what `7za l` prints for its package
  installer,      \* the generated web installer, when it runs
  composer,       \* one unit at the grain of the tasks of its task groups
  applied,        \* one function of the target, applied on its own
  cancelled,      \* packager.info.cancellationToken.cancelled
  archs,          \* this.archs, in insertion order
  caller,         \* where the packager is: build(), finishBuild(), ...
  builds,         \* finishBuild: the Set `builds`, in insertion order
  units,          \* one record per buildInstaller() call
  cur,            \* the unit whose buildInstaller() is running, or 0
  queue,          \* buildQueueManager: tasks added and not started
  running,        \* buildQueueManager: the tasks being run
  queueErrors,    \* buildQueueManager: tasks that rejected
  disk,           \* files of the output directory
  helperFinished  \* calls of packageHelper.finishBuild()

vars == <<options, host, requested, appInfo, archiveInfo, installer, composer, applied, cancelled, archs, caller, builds, units, cur,
          queue, running, queueErrors, disk, helperFinished>>

config == <<options, host, requested, appInfo, archiveInfo, installer, composer, applied>>

\* the state of the build, which a running installer leaves alone
buildState == <<options, host, requested, appInfo, archiveInfo, cancelled, archs, caller, builds,
                units, cur, queue, running, queueErrors, disk, helperFinished>>

(***************************************************************************)
(* Getters of NsisTarget.                                                  *)
(***************************************************************************)
\* a faulty getter that answers buildSeparateInstallers itself
shouldBuildUniversalInstallerNegated(o) == ~o.buildUniversalInstaller

\* lines 86-89
shouldBuildUniversalInstaller(o) == o.buildUniversalInstaller

isPortable(o) == o.target = "portable"

\* lines 399-401 answer false; the web installer target overrides the getter
isWebInstaller(o) == o.target = "nsis-web"

\* oneClick = options.oneClick !== false
oneClickOf(o) == o.oneClick

\* pattern.includes("${arch}") of packager.artifactPatternConfig(options, default):
\* the default pattern of finishBuild() carries no arch token
patternIncludesArch(o) == o.artifactName = "withArch"

\* primaryArch of buildInstaller: the only architecture, or null
primaryArch(as) == IF Len(as) = 1 THEN as[1] ELSE "null"

\* getArchSuffix(primaryArch, defaultArch), with x64 the default architecture
getArchSuffix(arch) == IF arch = "x64" THEN "" ELSE "-" \o arch

\* installerFilenamePattern and expandArtifactNamePattern, lines 138-143, 176:
\* the installer's file name without its "exe"
installerStem(o, as) ==
  LET pa == primaryArch(as) IN
  CASE o.artifactName = "withArch" ->
         "custom" \o (IF pa = "null" THEN "" ELSE "-" \o pa) \o "."
    [] o.artifactName = "withoutArch" -> "custom."
    [] OTHER ->
         "Setup"
         \o (IF ~shouldBuildUniversalInstaller(o) /\ pa # "null"
               THEN getArchSuffix(pa) ELSE "")
         \o "."

installerFilename(o, as) == installerStem(o, as) \o "exe"

\* every file name an installer can get
Stems ==
  {"custom.", "Setup."}
  \cup {"custom-" \o ArchOrder[i] \o "." : i \in 1..Len(ArchOrder)}
  \cup {"Setup-" \o ArchOrder[i] \o "." : i \in 1..Len(ArchOrder)}

\* path.basename(installerPath, "exe")
basenameExe(installerPath) ==
  IF \E st \in Stems : st \o "exe" = installerPath
    THEN CHOOSE st \in Stems : st \o "exe" = installerPath
    ELSE installerPath

\* line 416
uninstallerPath(installerPath) == basenameExe(installerPath) \o "__uninstaller.exe"

\* defineKey of buildInstaller
defineKey(arch) ==
  IF arch = "x64" THEN "APP_64" ELSE IF arch = "arm64" THEN "APP_ARM64" ELSE "APP_32"

(***************************************************************************)
(* BuildUnits.  The fields after `completed` are the locals of one         *)
(* buildInstaller() call and of the task it adds to the build queue; they  *)
(* are dropped when the call, or the task, has ended.                      *)
(***************************************************************************)
NoCommands == [OutFile |-> "", VIProductVersion |-> "", VIAddVersionKey |-> <<>>]

NoLocals ==
  [ installerPath |-> "",
    defines |-> NoDefines,
    definesUninstaller |-> NoDefines,
    commands |-> NoCommands,
    commandsUninstaller |-> NoCommands,
    calls |-> <<>>,
    invocations |-> <<>>,
    script |-> "none",
    threw |-> {},
    inv |-> "none",
    wasBusyBefore |-> FALSE,
    lastOpen |-> "none",
    busy |-> 0, delays |-> 0, probes |-> 0,
    i |-> 0,
    timedOut |-> FALSE,
    estimatedSize |-> 0,
    updateInfo |-> [produced |-> FALSE, isAdminRightsRequired |-> FALSE] ]

Locals == DOMAIN NoLocals

NewUnit(as) ==
  [ f \in {"archs", "phase", "err", "started", "completed", "packagesCompleted",
          "stopped"}
           \cup Locals |->
      CASE f = "archs" -> as
        [] f = "phase" -> "begin"
        [] f = "err" -> "none"
        [] f \in {"started", "completed", "stopped"} -> FALSE
        [] f = "packagesCompleted" -> {}
        [] OTHER -> NoLocals[f] ]

DropLocals(u) == [f \in DOMAIN u |-> IF f \in Locals THEN NoLocals[f] ELSE u[f]]

\* the phases in which a unit holds no locals any more
Ended == {"rejected", "skipped", "finished", "aborted"}

Call(u, name) == [u EXCEPT !.calls = Append(@, name)]

SetDefine(u, k, v) == [u EXCEPT !.defines = Put(@, k, v)]

(***************************************************************************)
(* Init: a target just constructed (NsisTarget.ts:56-84).                  *)
(***************************************************************************)
\* the packager's architecture lists: non-empty, in ArchOrder
IsOrdered(s) == \A i, j \in 1..Len(s) : i < j => ArchIndex(s[i]) < ArchIndex(s[j])

Requests ==
  {s \in UNION {[1..n -> Archs] : n \in 1..MaxArchs} : IsOrdered(s)}

\* the unit at the grain of its tasks: the tasks added and in flight, the
\* defines and declarations written, the header and the compiler's inputs;
\* here no unit is looked at so closely
NotComposing ==
  [ pc |-> "absent", mode |-> "portable", found |-> {}, added |-> {}, inFlight |-> {},
    defines |-> {}, writes |-> <<>>, generator |-> <<>>, header |-> "", script |-> "",
    compiled |-> <<>> ]

NoComposer == composer = NotComposing

\* no function is applied on its own
NoCall == applied = [fn |-> "none", args |-> <<>>, returned |-> FALSE, result |-> <<>>]

\* the web installer: its payload slots, its machine, its parameter and files,
\* and the registers of installApplicationFiles; here it does not exist yet
NotRun ==
  [ pc |-> "absent", names |-> {}, machine |-> "x86", parameter |-> "", files |-> <<>>,
    packageFile |-> "", r1 |-> "", r3 |-> "", r4 |-> "",
    isPackageFileExplicitlySpecified |-> "", selected |-> FALSE, hashed |-> FALSE,
    downloaded |-> FALSE, extracted |-> "" ]

\* while the target builds, no installer runs
NoInstaller == installer = NotRun

InitTarget ==
  /\ cancelled = FALSE
  /\ archs = <<>>
  /\ caller = [pc |-> "idle", loopThrew |-> FALSE, failed |-> FALSE]
  /\ builds = <<>>
  /\ units = <<>>
  /\ cur = 0
  /\ queue = <<>>
  /\ running = {}
  /\ queueErrors = 0
  /\ disk = {}
  /\ helperFinished = 0

\* one application, whose package listings all parse
DefaultApp ==
  /\ appInfo = [id |-> "com.a", shortVersion |-> Null]
  /\ archiveInfo = [a \in Archs |-> 2048]

\* several architectures are built on Linux; on macOS Catalina, where the
\* uninstaller can come from the virtual machine, one is
Init ==
  /\ options \in SchedOptions
  /\ host \in {"linux", "catalina"}
  /\ requested \in Requests
  /\ host = "catalina" => Len(requested) = 1
  /\ appInfo \in [id : {"com.a"}, shortVersion : ShortVersions]
  /\ archiveInfo = [a \in Archs |-> 2048]
  /\ InitTarget
  /\ NoInstaller
  /\ NoComposer
  /\ NoCall

(***************************************************************************)
(* Cancellation.  The token is raised by the packager's environment; the   *)
(* task groups (AsyncTaskManager) made with it at lines 474, 674 and 715   *)
(* reject their awaitTasks() once it is raised.                            *)
(***************************************************************************)
cancel ==
  /\ ~cancelled
  /\ cancelled' = TRUE
  /\ UNCHANGED <<config, archs, caller, builds, units, cur, queue, running,
                 queueErrors, disk, helperFinished>>

\* taskManager.awaitTasks() of a group made with the token
awaitTasksRejects(token) == token

(***************************************************************************)
(* build() and finishBuild() (NsisTarget.ts:91-97, 149-168).               *)
(***************************************************************************)
\* buildInstaller(archs) is entered: a BuildUnit is made
EnterBuildInstaller(as) ==
  /\ units' = Append(units, NewUnit(as))
  /\ cur' = Len(units) + 1

\* a faulty build that starts a unit for its architecture in every mode
buildAtOnce(arch) ==
  /\ caller.pc = "idle"
  /\ Len(archs) < Len(requested)
  /\ arch = requested[Len(archs) + 1]
  /\ archs' = Append(archs, arch)
  /\ EnterBuildInstaller(<<arch>>)
  /\ caller' = [caller EXCEPT !.pc = "build"]
  /\ UNCHANGED <<config, cancelled, builds, queue, running, queueErrors, disk, helperFinished>>

\* lines 91-97: the architecture is recorded, and unless the installer is
\* universal buildInstaller is entered for it
build(arch) ==
  /\ caller.pc = "idle"
  /\ Len(archs) < Len(requested)
  /\ arch = requested[Len(archs) + 1]
  /\ archs' = Append(archs, arch)
  /\ IF ~shouldBuildUniversalInstaller(options)
       THEN /\ EnterBuildInstaller(<<arch>>)
            /\ caller' = [caller EXCEPT !.pc = "build"]
       ELSE UNCHANGED <<units, cur, caller>>
  /\ UNCHANGED <<config, cancelled, builds, queue, running, queueErrors, disk, helperFinished>>

\* a faulty finishBuild that adds the per-architecture builds for one
\* architecture too
finishBuildSetAnySize(o, as) ==
  <<as>> \o
  (IF patternIncludesArch(o) /\ Len(as) > 0
     THEN [k \in 1..Len(as) |-> <<as[k]>>]
     ELSE <<>>)

\* lines 155-159: the Set `builds` of finishBuild, in insertion order
finishBuildSet(o, as) ==
  <<as>> \o
  (IF patternIncludesArch(o) /\ Len(as) > 1
     THEN [k \in 1..Len(as) |-> <<as[k]>>]
     ELSE <<>>)

finishBuild ==
  /\ caller.pc = "idle"
  /\ Len(archs) = Len(requested)
  /\ IF ~shouldBuildUniversalInstaller(options)
       THEN /\ caller' = [caller EXCEPT !.pc = "superFinish"]
            /\ UNCHANGED builds
       ELSE /\ caller' = [caller EXCEPT !.pc = "finish"]
            /\ builds' = finishBuildSet(options, archs)
  /\ UNCHANGED <<config, cancelled, archs, units, cur, queue, running, queueErrors, disk,
                 helperFinished>>

\* how many units finishBuild's loop has made so far
LoopMade ==
  IF shouldBuildUniversalInstaller(options) /\ caller.pc # "idle"
    THEN Len(units) ELSE 0

\* for (const archs of doBuildArchs) await this.buildInstaller(archs)
finishBuildLoop ==
  /\ caller.pc = "finish"
  /\ cur = 0
  /\ IF LoopMade < Len(builds)
       THEN /\ EnterBuildInstaller(builds[LoopMade + 1])
            /\ UNCHANGED caller
       ELSE /\ caller' = [caller EXCEPT !.pc = "superFinish"]
            /\ UNCHANGED <<units, cur>>
  /\ UNCHANGED <<config, cancelled, archs, builds, queue, running, queueErrors, disk,
                 helperFinished>>

(***************************************************************************)
(* buildInstaller(), up to the build queue (NsisTarget.ts:170-350).        *)
(***************************************************************************)
Preamble(phase) == cur # 0 /\ units[cur].phase = phase

SetCur(u) == units' = [units EXCEPT ![cur] = u]

\* line 45
ELECTRON_BUILDER_NS_UUID == "50e065bc-3134-11e6-9bab-38c9862bdaf3"

\* UUID.v5(name, namespace): a hash of the two, written as the pair
uuidV5(name, namespace) == "uuid5(" \o namespace \o "," \o name \o ")"

\* a faulty guid that is derived from the target's name too
appGuidOfTarget(o, info) ==
  IF o.guid # <<>>
    THEN o.guid
    ELSE <<uuidV5(info.id \o "/" \o o.target, ELECTRON_BUILDER_NS_UUID)>>

\* line 203: options.guid || UUID.v5(appInfo.id, ELECTRON_BUILDER_NS_UUID),
\* as the sequence of its pieces
appGuid(o, info) ==
  IF o.guid # <<>> THEN o.guid ELSE <<uuidV5(info.id, ELECTRON_BUILDER_NS_UUID)>>

\* the string that a sequence of pieces spells
RECURSIVE text(_)
text(pieces) ==
  IF pieces = <<>> THEN "" ELSE Head(pieces) \o text(Tail(pieces))

\* a faulty replacement without the g flag: the first backslash only
RECURSIVE replaceFirstBackslash(_)
replaceFirstBackslash(guid) ==
  IF guid = <<>>
    THEN <<>>
    ELSE IF Head(guid) = "\\"
           THEN <<" - ">> \o Tail(guid)
           ELSE <<Head(guid)>> \o replaceFirstBackslash(Tail(guid))

\* line 204: guid.replace(/\\/g, " - ")
uninstallAppKey(guid) ==
  [i \in 1..Len(guid) |-> IF guid[i] = "\\" THEN " - " ELSE guid[i]]

\* lines 224-226: the key of older installers, under the unmodified guid
putUninstallRegistryKey2(d, guid) ==
  IF text(uninstallAppKey(guid)) # text(guid)
    THEN Put(d, "UNINSTALL_REGISTRY_KEY_2",
             "Software\\Microsoft\\Windows\\CurrentVersion\\Uninstall\\" \o text(guid))
    ELSE d

\* lines 205-226: the first defines
firstDefines(o, info) ==
  LET guid == appGuid(o, info)
  IN putUninstallRegistryKey2(
       Put(Put(Put(Put(NoDefines, "APP_ID", info.id), "APP_GUID", text(guid)),
               "UNINSTALL_APP_KEY", text(uninstallAppKey(guid))),
           "VERSION", "version"),
       guid)

\* lines 449-468: the version keys, with the short version in the product and
\* file versions when `short`
computeVersionKey(info, short) ==
  << "ProductName \"productName\"",
     "ProductVersion \"" \o (IF short THEN info.shortVersion ELSE "version") \o "\"",
     "FileVersion \"" \o (IF short THEN info.shortVersion ELSE "buildVersion") \o "\"" >>

\* lines 234-239: the commands
firstCommands(installerPath, info) ==
  [OutFile |-> "\"" \o installerPath \o "\"",
   VIProductVersion |-> "version.windows",
   VIAddVersionKey |-> computeVersionKey(info, FALSE)]

\* lines 343-346: the uninstaller's copy of the defines
shortVersionDefines(defines, info) ==
  IF info.shortVersion # Null
    THEN Put(defines, "VERSION", info.shortVersion)
    ELSE defines

\* lines 344-350: the uninstaller's copy of the commands
shortVersionCommands(commands, info) ==
  IF info.shortVersion # Null
    THEN [commands EXCEPT
            !.VIProductVersion = info.shortVersion \o ".windows",
            !.VIAddVersionKey = computeVersionKey(info, TRUE)]
    ELSE commands

\* emitArtifactBuildStarted, then the first defines and commands
emitArtifactBuildStarted ==
  /\ Preamble("begin")
  /\ SetCur([units[cur] EXCEPT
       !.started = TRUE,
       !.installerPath = installerFilename(options, units[cur].archs),
       !.defines = firstDefines(options, appInfo),
       !.commands = firstCommands(
          installerFilename(options, units[cur].archs), appInfo),
       !.phase = "pack"])
  /\ UNCHANGED <<config, cancelled, archs, caller, builds, cur, queue, running, queueErrors,
                 disk, helperFinished>>

appDirKey(arch) ==
  IF arch = "x64" THEN "APP_DIR_64"
  ELSE IF arch = "arm64" THEN "APP_DIR_ARM64" ELSE "APP_DIR_32"

appDirOf(arch) == "appOutDir-" \o arch

packageFileOf(arch) == "app-" \o arch \o ".nsis.7z"

\* lines 255-257: defines[APP_DIR_..] = dir, for every architecture in turn
putAppDirs(d, as) ==
  LET keys == {appDirKey(as[i]) : i \in 1..Len(as)}
      last(k) == CHOOSE i \in 1..Len(as) :
                   /\ appDirKey(as[i]) = k
                   /\ \A j \in 1..Len(as) : appDirKey(as[j]) = k => j <= i
  IN [k \in (DOMAIN d) \cup keys |->
        IF k \in keys THEN appDirOf(as[last(k)]) ELSE d[k]]

\* lines 264-267: defines[defineKey] = file, for every architecture in turn
putPackageFiles(d, as) ==
  LET keys == {defineKey(as[i]) : i \in 1..Len(as)}
      last(k) == CHOOSE i \in 1..Len(as) :
                   /\ defineKey(as[i]) = k
                   /\ \A j \in 1..Len(as) : defineKey(as[j]) = k => j <= i
  IN [k \in (DOMAIN d) \cup keys |->
        IF k \in keys THEN packageFileOf(as[last(k)]) ELSE d[k]]

\* the processes of packing n architectures: packArch and the 7za listing
packCalls(n) == [k \in 1..(2 * n) |-> IF k % 2 = 1 THEN "packArch" ELSE "list"]

\* lines 280-287: the package files whose "artifact build completed" is emitted
\* when the first n architectures of the unit are packed
packagesEmitted(o, as, n) ==
  IF isWebInstaller(o) THEN {packageFileOf(as[i]) : i \in 1..n} ELSE {}

\* lines 289-297: the sizes the listings of the packages add up to; a listing
\* that does not parse adds nothing
sumOfListings(info, as) ==
  LET sum[k \in 0..Len(as)] ==
        IF k = 0 THEN 0
        ELSE sum[k - 1] + (IF info[as[k]] = Unparsed THEN 0 ELSE info[as[k]])
  IN sum[Len(as)]

\* lines 252-300: the payload of every architecture of the unit
packArchs ==
  /\ Preamble("pack")
  /\ LET u == units[cur] IN
     IF isPortable(options) /\ options.useZip
       THEN SetCur([u EXCEPT
              !.defines = putAppDirs(@, u.archs),
              !.phase = "configure"])
       ELSE \E ok \in BOOLEAN :
              IF ok
                THEN SetCur([u EXCEPT
                       !.defines = putPackageFiles(@, u.archs),
                       !.calls = @ \o packCalls(Len(u.archs)),
                       !.packagesCompleted =
                          packagesEmitted(options, u.archs, Len(u.archs)),
                       !.estimatedSize = sumOfListings(archiveInfo, u.archs),
                       !.phase = "configure"])
                ELSE SetCur([u EXCEPT
                       !.calls = @ \o [k \in 1..Len(u.archs) |-> "packArch"],
                       !.packagesCompleted =
                          packagesEmitted(options, u.archs, Len(u.archs) - 1),
                       !.err = "external",
                       !.phase = "threw"])
  /\ UNCHANGED <<config, cancelled, archs, caller, builds, cur, queue, running, queueErrors,
                 disk, helperFinished>>

AddFlag(d, cond, k) == IF cond THEN Put(d, k, Null) ELSE d

\* configureDefines(oneClick, defines), lines 470-581: whether it throws
\* InvalidConfigurationError, and the defines it leaves
configureDefines(o, d) ==
  LET oneClick == oneClickOf(o)
      d1 == IF oneClick
              THEN Put(d, "ONE_CLICK", Null)
              ELSE AddFlag(d, o.allowElevation # "false",
                           "MULTIUSER_INSTALLMODE_ALLOW_ELEVATION")
      d1a == AddFlag(d1, o.perMachine, "INSTALL_MODE_PER_ALL_USERS")
      d1b == AddFlag(d1a, ~oneClick \/ o.perMachine,
                     "INSTALL_MODE_PER_ALL_USERS_REQUIRED")
      d2 == AddFlag(d1b, o.allowToChangeInstallationDirectory,
                    "allowToChangeInstallationDirectory")
      d3 == AddFlag(d2, o.allowToAddShortcut, "ALLOW_TO_ADD_SHORTCUT")
      d4 == AddFlag(d3, o.removeDefaultUninstallWelcomePage,
                    "removeDefaultUninstallWelcomePage")
  IN IF o.allowToChangeInstallationDirectory /\ oneClick
       THEN [threw |-> TRUE, defines |-> d1b]
     ELSE IF o.allowToAddShortcut /\ oneClick
       THEN [threw |-> TRUE, defines |-> d2]
     ELSE [threw |-> FALSE, defines |-> d4]

\* what executeAppBuilder(["ksuid"]) answers: an id made for this build
Ksuid == "<ksuid>"

\* line 309: unpackDirName || (await executeAppBuilder(["ksuid"])) runs the
\* process when the option is unset or false
needsKsuid(name) == name \in {"unset", "false"}

\* lines 304-310: the defines of the portable target
portableDefines(o, d) ==
  LET d1 == Put(d, "REQUEST_EXECUTION_LEVEL", "user")
  IN IF o.unpackDirName = "dir" \/ o.unpackDirName \in {"unset", "false"}
       THEN Put(d1, "UNPACK_DIR_NAME",
                IF needsKsuid(o.unpackDirName) THEN Ksuid ELSE o.unpackDirName)
       ELSE d1

\* Math.round(n / 1024), for n >= 0
roundKb(n) == (n + 512) \div 1024

\* lines 319-322
putEstimatedSize(d, estimatedSize) ==
  IF estimatedSize # 0
    THEN Put(d, "ESTIMATED_SIZE", ToString(roundKb(estimatedSize)))
    ELSE d

\* lines 302-334: the defines of the installer kind
configure ==
  /\ Preamble("configure")
  /\ LET u == units[cur]
         r == configureDefines(options, u.defines)
     IN IF isPortable(options)
          THEN \E ok \in BOOLEAN :
                 LET ksuid == needsKsuid(options.unpackDirName)
                     v == IF ksuid THEN Call(u, "ksuid") ELSE u
                 IN IF ksuid /\ ~ok
                      THEN SetCur([v EXCEPT !.err = "external", !.phase = "threw"])
                      ELSE SetCur([v EXCEPT
                             !.defines = putEstimatedSize(
                                portableDefines(options, @), v.estimatedSize),
                             !.phase = "hook"])
        ELSE IF r.threw
          THEN SetCur([u EXCEPT
                 !.defines = r.defines, !.err = "config", !.phase = "threw"])
        ELSE IF awaitTasksRejects(cancelled)
          THEN SetCur([u EXCEPT
                 !.defines = r.defines, !.err = "cancelled", !.phase = "threw"])
        ELSE SetCur([u EXCEPT
               !.defines = putEstimatedSize(r.defines, u.estimatedSize),
               !.phase = "hook"])
  /\ UNCHANGED <<config, cancelled, archs, caller, builds, cur, queue, running, queueErrors,
                 disk, helperFinished>>

\* a faulty buildInstaller that goes on whatever the hook answers
effectiveOptionComputedIgnored ==
  /\ Preamble("hook")
  /\ \E stop \in BOOLEAN :
       SetCur([units[cur] EXCEPT
         !.stopped = stop, !.phase = "enqueue"])
  /\ UNCHANGED <<config, cancelled, archs, caller, builds, cur, queue, running, queueErrors,
                 disk, helperFinished>>

\* lines 339-341: the effectiveOptionComputed hook; when it answers true the
\* call returns
effectiveOptionComputed ==
  /\ Preamble("hook")
  /\ \E stop \in BOOLEAN :
       SetCur([units[cur] EXCEPT
         !.stopped = stop, !.phase = IF stop THEN "return" ELSE "enqueue"])
  /\ UNCHANGED <<config, cancelled, archs, caller, builds, cur, queue, running, queueErrors,
                 disk, helperFinished>>

\* what the packager does when a buildInstaller() call has settled
Settled(rejected) ==
  CASE caller.pc = "build" -> [caller EXCEPT !.pc = "idle"]
    [] caller.pc = "finish" /\ rejected ->
         [caller EXCEPT !.pc = "superFinish", !.loopThrew = TRUE, !.failed = TRUE]
    [] OTHER -> caller

\* a faulty buildInstaller that runs its task itself, beside the queue
runTaskAtOnce(q, r, task) == [queue |-> q, running |-> r \cup {task}]

\* line 352, this.buildQueueManager.add(task): the task is handed to the
\* build queue
addToBuildQueue(q, r, task) == [queue |-> Append(q, task), running |-> r]

\* lines 343-352: the uninstaller's copies of the defines, and the task
enqueue ==
  /\ Preamble("enqueue")
  /\ SetCur([units[cur] EXCEPT
       !.definesUninstaller = shortVersionDefines(units[cur].defines, appInfo),
       !.commandsUninstaller = shortVersionCommands(units[cur].commands, appInfo),
       !.phase = "queued"])
  /\ queue' = addToBuildQueue(queue, running, cur).queue
  /\ running' = addToBuildQueue(queue, running, cur).running
  /\ cur' = 0
  /\ caller' = Settled(FALSE)
  /\ UNCHANGED <<config, cancelled, archs, builds, queueErrors, disk, helperFinished>>

\* buildInstaller() returned early, or threw: its locals are gone
settle ==
  /\ cur # 0
  /\ units[cur].phase \in {"threw", "return"}
  /\ SetCur([DropLocals(units[cur]) EXCEPT
       !.phase = IF units[cur].phase = "threw" THEN "rejected" ELSE "skipped"])
  /\ cur' = 0
  /\ caller' = Settled(units[cur].phase = "threw")
  /\ UNCHANGED <<config, cancelled, archs, builds, queue, running, queueErrors, disk,
                 helperFinished>>

(***************************************************************************)
(* The build queue of the target (Target.buildQueueManager): one task at a *)
(* time, in the order they were added.                                     *)
(***************************************************************************)
QueueCanStart(r) == r = {}

queueStart ==
  /\ queue # <<>>
  /\ ~cancelled
  /\ QueueCanStart(running)
  /\ running' = running \cup {Head(queue)}
  /\ queue' = Tail(queue)
  /\ UNCHANGED <<config, cancelled, archs, caller, builds, units, cur, queueErrors, disk,
                 helperFinished>>

(***************************************************************************)
(* The queued task of buildInstaller() (NsisTarget.ts:352-385), with       *)
(* computeScriptAndSignUninstaller (403-447), executeMakensis (611-658)    *)
(* and ensureNotBusy (797-826).                                            *)
(***************************************************************************)
Task(u, phase) == u \in running /\ units[u].phase = phase

SetUnit(u, v) == units' = [units EXCEPT ![u] = v]

\* the call `step` rejected, and with it the task
Fail(v, step) ==
  [v EXCEPT !.err = "external", !.threw = @ \cup {step}, !.phase = "failed"]

\* a task group of the task rejected because the token is raised
Cancel(v) ==
  [v EXCEPT !.err = "cancelled", !.threw = @ \cup {"cancelled"}, !.phase = "failed"]

\* executeMakensis is entered for the stub ("uninstaller") or the installer
enterMakensis(v, kind) == [v EXCEPT !.inv = kind, !.phase = "probe"]

\* executeMakensis has returned or thrown: the state of its probes is gone
leaveMakensis(v) ==
  [v EXCEPT !.wasBusyBefore = FALSE, !.lastOpen = "none",
            !.busy = 0, !.delays = 0, !.probes = 0]

\* line 419: the path the stub writes the uninstaller to
stubOutFile(h, path) == IF h = "win32" THEN path ELSE "Z:" \o path

\* line 356 and lines 405-411: the script that is read
scriptOf(o, customScript) ==
  IF isPortable(o) THEN "portable"
  ELSE IF customScript THEN "custom" ELSE "template"

\* a faulty task that builds the uninstaller whatever the script
buildsUninstallerAlways(script) == TRUE

\* line 356 takes computeScriptAndSignUninstaller unless the target is
\* portable, and line 408 leaves it when the script is a custom one
buildsUninstaller(script) == script = "template"

\* lines 353-356 and 403-420: the header (whose task group is awaited at line
\* 705), the script, and for the template script the defines of the stub and
\* computeFinalScript (task group awaited at line 722)
startTask(u) ==
  /\ Task(u, "queued")
  /\ LET v == units[u] IN
     IF awaitTasksRejects(cancelled)
       THEN SetUnit(u, Cancel(v))
       ELSE \E customScript \in BOOLEAN :
              LET script == scriptOf(options, customScript) IN
              IF ~buildsUninstaller(script)
                THEN SetUnit(u, [v EXCEPT !.script = script, !.phase = "final"])
                ELSE SetUnit(u, enterMakensis(
                       [v EXCEPT !.script = script, !.definesUninstaller =
                          Put(Put(@, "BUILD_UNINSTALLER", Null),
                              "UNINSTALLER_OUT_FILE",
                              stubOutFile(host, uninstallerPath(v.installerPath)))],
                       "uninstaller"))
  /\ UNCHANGED <<config, cancelled, archs, caller, builds, cur, queue, running, queueErrors,
                 disk, helperFinished>>

\* what fs.open(outFile, "r+") can answer
OpenResults == {"EBUSY", "ENOENT", "opened"}

\* a faulty probe that takes every answer of fs.open for "not busy"
probeResolvesAlways(openResult) == TRUE

\* a faulty probe that takes every error of fs.open for a locked file
probeResolvesWhenOpened(openResult) == openResult = "opened"

\* lines 802-811: the promise of one probe resolves true unless the open
\* failed with EBUSY
probeResolves(openResult) == openResult # "EBUSY"

\* lines 799-816: one probe of the output file
isBusy(u) ==
  /\ Task(u, "probe")
  /\ \E r \in OpenResults :
       LET v == [units[u] EXCEPT
                  !.probes = Min(@ + 1, MaxBusy + 1),
                  !.busy = IF r = "EBUSY" THEN Min(@ + 1, MaxBusy) ELSE @,
                  !.lastOpen = r]
       IN SetUnit(u, [v EXCEPT
            !.phase = IF probeResolves(r) THEN "spawn" ELSE "backoff"])
  /\ UNCHANGED <<config, cancelled, archs, caller, builds, cur, queue, running, queueErrors,
                 disk, helperFinished>>

\* line 820: setTimeout(resolve, 2000), then isBusy(true)
backoff(u) ==
  /\ Task(u, "backoff")
  /\ SetUnit(u, [units[u] EXCEPT !.delays = Min(@ + 1, MaxBusy),
                                 !.wasBusyBefore = TRUE,
                                 !.phase = "probe"])
  /\ UNCHANGED <<config, cancelled, archs, caller, builds, cur, queue, running, queueErrors,
                 disk, helperFinished>>

\* a faulty task that compiles the stub with the installer's defines
makensisDefinesOfInstaller(v) == v.defines

\* lines 612-634: the defines that become the -D arguments of this invocation
makensisDefines(v) ==
  IF v.inv = "uninstaller" THEN v.definesUninstaller ELSE v.defines

\* a faulty task that compiles the installer with the commands of the stub
makensisCommandsOfUninstaller(v) == v.commandsUninstaller

\* lines 623-633: the commands that become the -X arguments of this invocation
makensisCommands(v) ==
  IF v.inv = "uninstaller" THEN v.commandsUninstaller ELSE v.commands

\* line 653: makensis is started
spawnAndWrite(u) ==
  /\ Task(u, "spawn")
  /\ SetUnit(u, [Call(units[u], "makensis") EXCEPT
       !.invocations = Append(@, [kind |-> units[u].inv,
                                  defines |-> makensisDefines(units[u]),
                                  commands |-> makensisCommands(units[u]),
                                  cancelled |-> cancelled]),
       !.phase = "compile"])
  /\ UNCHANGED <<config, cancelled, archs, caller, builds, cur, queue, running, queueErrors,
                 disk, helperFinished>>

\* makensis has exited
makensisExit(u) ==
  /\ Task(u, "compile")
  /\ \E ok \in BOOLEAN :
       LET v == leaveMakensis(units[u]) IN
       IF ~ok THEN SetUnit(u, Fail(v, "makensis-" \o v.inv))
       ELSE IF v.inv = "uninstaller" THEN SetUnit(u, [v EXCEPT !.phase = "exec"])
       ELSE SetUnit(u, [v EXCEPT !.phase = "sign"])
  /\ UNCHANGED <<config, cancelled, archs, caller, builds, cur, queue, running, queueErrors,
                 disk, helperFinished>>

\* lines 423-440: running the stub failed; on macOS Catalina the virtual
\* machine is tried, elsewhere execWine's error ends the task
onExecFailure(h, v) ==
  IF h = "catalina"
    THEN [v EXCEPT !.threw = @ \cup {"exec"}, !.phase = "vm"]
    ELSE Fail(v, "exec")

\* lines 423-440: the compiled stub is run, and writes the uninstaller
execStub(u) ==
  /\ Task(u, "exec")
  /\ \E ok \in BOOLEAN :
       LET v == Call(units[u], "exec") IN
       IF ok
         THEN /\ SetUnit(u, [v EXCEPT !.phase = "usign"])
              /\ disk' = disk \cup {uninstallerPath(v.installerPath)}
         ELSE /\ SetUnit(u, onExecFailure(host, v))
              /\ UNCHANGED disk
  /\ UNCHANGED <<config, cancelled, archs, caller, builds, cur, queue, running, queueErrors,
                 helperFinished>>

\* lines 429-430: the stub is run in the virtual machine
vmExec(u) ==
  /\ Task(u, "vm")
  /\ \E ok \in BOOLEAN :
       LET v == Call(units[u], "vm") IN
       SetUnit(u, IF ok THEN [v EXCEPT !.i = 0, !.phase = "poll"] ELSE Fail(v, "vm"))
  /\ UNCHANGED <<config, cancelled, archs, caller, builds, cur, queue, running, queueErrors,
                 disk, helperFinished>>

\* lines 432-436: while (!(await exists(uninstallerPath)) && i++ < 100) wait;
\* the installer running in the virtual machine may have written the file
pollUninstaller(u) ==
  /\ Task(u, "poll")
  /\ \E written \in BOOLEAN :
       LET v == units[u]
           file == uninstallerPath(v.installerPath)
       IN /\ disk' = IF written THEN disk \cup {file} ELSE disk
          /\ IF file \in disk'
               THEN SetUnit(u, [v EXCEPT !.i = 0, !.phase = "usign"])
             ELSE IF v.i < PollLimit
               THEN SetUnit(u, [v EXCEPT !.i = @ + 1])
             ELSE SetUnit(u, [v EXCEPT !.i = 0, !.timedOut = TRUE,
                                       !.phase = "usign"])
  /\ UNCHANGED <<config, cancelled, archs, caller, builds, cur, queue, running, queueErrors,
                 helperFinished>>

\* a faulty computeScriptAndSignUninstaller that swallows the signing error
afterSignUninstallerSwallowed(ok, v) ==
  [v EXCEPT
     !.definesUninstaller =
        Put(Delete(@, "BUILD_UNINSTALLER"),
            "UNINSTALLER_OUT_FILE", uninstallerPath(v.installerPath)),
     !.threw = IF ok THEN @ ELSE @ \cup {"sign-uninstaller"},
     !.phase = "final"]

\* lines 441-446: after packager.sign(uninstallerPath): the defines of the
\* stub become those the installer takes over, or the error ends the task
afterSignUninstaller(ok, v) ==
  IF ok
    THEN [v EXCEPT
            !.definesUninstaller =
               Put(Delete(@, "BUILD_UNINSTALLER"),
                   "UNINSTALLER_OUT_FILE", uninstallerPath(v.installerPath)),
            !.phase = "final"]
    ELSE Fail(v, "sign-uninstaller")

\* line 441: the uninstaller is signed
signUninstaller(u) ==
  /\ Task(u, "usign")
  /\ \E ok \in BOOLEAN :
       SetUnit(u, afterSignUninstaller(ok, Call(units[u], "sign")))
  /\ UNCHANGED <<config, cancelled, archs, caller, builds, cur, queue, running, queueErrors,
                 disk, helperFinished>>

\* a faulty task that forgets to copy the define
copyOutFileForgotten(defines, definesUninstaller) == defines

\* line 359: defines.UNINSTALLER_OUT_FILE = definesUninstaller.UNINSTALLER_OUT_FILE
copyOutFile(defines, definesUninstaller) ==
  Put(defines, "UNINSTALLER_OUT_FILE",
      IF Has(definesUninstaller, "UNINSTALLER_OUT_FILE")
        THEN definesUninstaller["UNINSTALLER_OUT_FILE"]
        ELSE Undefined)

\* lines 359-361: the installer's defines and script, and its executeMakensis
finalScript(u) ==
  /\ Task(u, "final")
  /\ LET v == [units[u] EXCEPT
                 !.defines = copyOutFile(@, units[u].definesUninstaller)]
     IN SetUnit(u, IF awaitTasksRejects(cancelled)
                     THEN Cancel(v)
                     ELSE enterMakensis(v, "installer"))
  /\ UNCHANGED <<config, cancelled, archs, caller, builds, cur, queue, running, queueErrors,
                 disk, helperFinished>>

\* line 362: the files unlinked beside the signing of the installer
unlinked(defines) ==
  IF ~Has(defines, "UNINSTALLER_OUT_FILE")
       \/ defines["UNINSTALLER_OUT_FILE"] \in {Null, Undefined}
    THEN {}
    ELSE {defines["UNINSTALLER_OUT_FILE"]}

\* line 362: Promise.all([packager.sign(installerPath), unlink(...)])
signInstaller(u) ==
  /\ Task(u, "sign")
  /\ \E ok \in BOOLEAN :
       LET v == Call(units[u], "sign") IN
       /\ disk' = disk \ unlinked(v.defines)
       /\ SetUnit(u, IF ~ok THEN Fail(v, "sign-installer")
                     ELSE IF ~(unlinked(v.defines) \subseteq disk)
                       THEN Fail(v, "unlink")
                     ELSE [v EXCEPT !.phase = "update"])
  /\ UNCHANGED <<config, cancelled, archs, caller, builds, cur, queue, running, queueErrors,
                 helperFinished>>

\* lines 99-101
isBuildDifferentialAware(o) == ~isPortable(o) /\ o.differentialPackage

\* line 372: isPerMachine && (oneClick || options.packElevateHelper)
isAdminRightsRequired(o) ==
  o.perMachine /\ (oneClickOf(o) \/ o.packElevateHelper = "true")

\* lines 365-374: the update information; `produced` is updateInfo != null
computeUpdateInfo(o) ==
  LET produced == isWebInstaller(o) \/ isBuildDifferentialAware(o)
  IN [produced |-> produced,
      isAdminRightsRequired |-> produced /\ isAdminRightsRequired(o)]

\* lines 364-384: the update information, then emitArtifactBuildCompleted
emitArtifactBuildCompleted(u) ==
  /\ Task(u, "update")
  /\ \E ok \in BOOLEAN :
       IF ~isWebInstaller(options) /\ isBuildDifferentialAware(options) /\ ~ok
         THEN SetUnit(u, Fail(units[u], "blockmap"))
         ELSE SetUnit(u, [units[u] EXCEPT
                !.updateInfo = computeUpdateInfo(options),
                !.completed = TRUE, !.phase = "done"])
  /\ UNCHANGED <<config, cancelled, archs, caller, builds, cur, queue, running, queueErrors,
                 disk, helperFinished>>

\* the task's promise settles: the queue is free again
taskEnd(u) ==
  /\ u \in running
  /\ units[u].phase \in {"done", "failed"}
  /\ SetUnit(u, [DropLocals(units[u]) EXCEPT
       !.phase = IF units[u].phase = "done" THEN "finished" ELSE "aborted"])
  /\ running' = running \ {u}
  /\ queueErrors' = IF units[u].phase = "failed" THEN queueErrors + 1 ELSE queueErrors
  /\ UNCHANGED <<config, cancelled, archs, caller, builds, cur, queue, disk, helperFinished>>

(***************************************************************************)
(* The end of finishBuild() (NsisTarget.ts:150-153, 164-167).              *)
(***************************************************************************)
\* super.finishBuild(): waits for the build queue, and throws what its tasks threw
superFinishBuild ==
  /\ caller.pc = "superFinish"
  /\ queue = <<>> \/ cancelled
  /\ running = {}
  /\ caller' = IF queueErrors > 0 \/ cancelled
                 THEN [caller EXCEPT !.pc = "done", !.failed = TRUE]
                 ELSE [caller EXCEPT !.pc = "helperFinish"]
  /\ UNCHANGED <<config, cancelled, archs, builds, units, cur, queue, running, queueErrors,
                 disk, helperFinished>>

\* this.packageHelper.finishBuild()
packageHelperFinishBuild ==
  /\ caller.pc = "helperFinish"
  /\ helperFinished' = helperFinished + 1
  /\ caller' = [caller EXCEPT !.pc = "done"]
  /\ UNCHANGED <<config, cancelled, archs, builds, units, cur, queue, running, queueErrors,
                 disk>>

UnitIds == 1..Len(units)

Next ==
  \/ cancel
  \/ \E a \in Archs : build(a)
  \/ finishBuild
  \/ finishBuildLoop
  \/ emitArtifactBuildStarted
  \/ packArchs
  \/ configure
  \/ effectiveOptionComputed
  \/ enqueue
  \/ settle
  \/ queueStart
  \/ \E u \in UnitIds : startTask(u)
  \/ \E u \in UnitIds : isBusy(u)
  \/ \E u \in UnitIds : backoff(u)
  \/ \E u \in UnitIds : spawnAndWrite(u)
  \/ \E u \in UnitIds : makensisExit(u)
  \/ \E u \in UnitIds : execStub(u)
  \/ \E u \in UnitIds : vmExec(u)
  \/ \E u \in UnitIds : pollUninstaller(u)
  \/ \E u \in UnitIds : signUninstaller(u)
  \/ \E u \in UnitIds : finalScript(u)
  \/ \E u \in UnitIds : signInstaller(u)
  \/ \E u \in UnitIds : emitArtifactBuildCompleted(u)
  \/ \E u \in UnitIds : taskEnd(u)
  \/ superFinishBuild
  \/ packageHelperFinishBuild

\* a target that builds several architectures, with the options that only
\* change defines at their defaults
Spec == Init /\ [][Next]_vars

\* a target that builds one architecture, with every mode and every
\* assisted-only option
InitUnit ==
  /\ options \in UnitOptions
  /\ host \in Hosts
  /\ requested \in {r \in Requests : Len(r) = 1}
  /\ DefaultApp
  /\ InitTarget
  /\ NoInstaller
  /\ NoComposer
  /\ NoCall

SpecUnit == InitUnit /\ [][Next]_vars

\* a target that builds one architecture of one of two applications, with
\* the options of the update information and of the identifiers
InitMeta ==
  /\ options \in MetaOptions
  /\ host \in Hosts
  /\ requested \in {r \in Requests : Len(r) = 1}
  /\ appInfo \in [id : AppIds, shortVersion : {Null}]
  /\ archiveInfo = [a \in Archs |-> 2048]
  /\ InitTarget
  /\ NoInstaller
  /\ NoComposer
  /\ NoCall

SpecMeta == InitMeta /\ [][Next]_vars

\* a universal installer, with every outcome of the package listings
InitSize ==
  /\ options \in SizeOptions
  /\ host \in Hosts
  /\ requested \in Requests
  /\ appInfo = [id |-> "com.a", shortVersion |-> Null]
  /\ archiveInfo \in [Archs -> Listings]
  /\ InitTarget
  /\ NoInstaller
  /\ NoComposer
  /\ NoCall

SpecSize == InitSize /\ [][Next]_vars

\* the installer and the web installer, whose packages are artifacts of their
\* own, with all the options at their defaults
InitNotify ==
  /\ options \in NotifyOptions
  /\ host \in {"linux", "catalina"}
  /\ requested \in Requests
  /\ host = "catalina" => Len(requested) = 1
  /\ DefaultApp
  /\ InitTarget
  /\ NoInstaller
  /\ NoComposer
  /\ NoCall

SpecNotify == InitNotify /\ [][Next]_vars

(***************************************************************************)
(* The generated web installer at run time: the macro                      *)
(* installApplicationFiles of the installer script, under APP_PACKAGE_URL. *)
(* `installer` is the installer process: its compile-time defines, the     *)
(* machine and the disk it runs on, and the registers of the macro.        *)
(***************************************************************************)
\* the payload slots a web installer can be compiled with
PayloadKeys == {"APP_64", "APP_32", "APP_ARM64"}

\* ${APP_.._NAME} and ${APP_.._HASH}; makensis leaves the reference to a
\* define that does not exist as it is written
sha512(content) == "SHA512(" \o content \o ")"
payloadOf(key) == "package of " \o key
nameOf(names, key) == IF key \in names THEN key \o ".nsis.7z" ELSE "${" \o key \o "_NAME}"
hashOf(names, key) == IF key \in names THEN sha512(payloadOf(key)) ELSE "${" \o key \o "_HASH}"

\* the machines an installer runs on: ${IsNativeARM64}, ${IsNativeAMD64},
\* ${RunningX64} (true on every 64-bit system)
Machines == {"arm64", "amd64", "x86"}
IsNativeARM64(machine) == machine = "arm64"
IsNativeAMD64(machine) == machine = "amd64"
RunningX64(machine) == machine # "x86"

\* the values of the "package-file" parameter: absent, or a path
ExplicitPackage == "C:/update/package.7z"
Parameters == {"", ExplicitPackage}

\* the files the installer can find, and what each holds
Absent == "<absent>"
exeDir(name) == "$EXEDIR/" \o name
Paths == {exeDir(nameOf(PayloadKeys, k)) : k \in PayloadKeys} \cup {ExplicitPackage}
Contents == {Absent, "something else"} \cup {payloadOf(k) : k \in PayloadKeys}
FileExists(files, path) == path \in DOMAIN files /\ files[path] # Absent

\* lines 19-47: the slot of the architecture-default payload
selectedKey(names, machine) ==
  IF "APP_64" \in names
    THEN IF "APP_32" \in names
           THEN IF "APP_ARM64" \in names
                  THEN IF IsNativeARM64(machine) THEN "APP_ARM64"
                       ELSE IF IsNativeAMD64(machine) THEN "APP_64" ELSE "APP_32"
                  ELSE IF RunningX64(machine) THEN "APP_64" ELSE "APP_32"
           ELSE "APP_64"
    ELSE "APP_32"

\* an installer that is about to install the application files
Started(names, machine, parameter, files) ==
  [NotRun EXCEPT !.pc = "installApplicationFiles", !.names = names,
                 !.machine = machine, !.parameter = parameter, !.files = files]

\* a faulty parameter lookup that finds nothing
getParameterEmpty(parameter) == ""

\* ${StdUtils.GetParameter} $packageFile "package-file" ""
getParameter(parameter) == parameter

\* lines 17-54: the package file is the parameter, or the default of the machine
choosePackageFile ==
  /\ installer.pc = "installApplicationFiles"
  /\ LET packageFile == getParameter(installer.parameter) IN
     IF packageFile = ""
       THEN LET key == selectedKey(installer.names, installer.machine) IN
            installer' = [installer EXCEPT
              !.selected = TRUE,
              !.r1 = hashOf(installer.names, key),
              !.r4 = nameOf(installer.names, key),
              !.packageFile = exeDir(nameOf(installer.names, key)),
              !.isPackageFileExplicitlySpecified = "false",
              !.pc = "FileExists"]
       ELSE installer' = [installer EXCEPT
              !.packageFile = packageFile,
              !.isPackageFileExplicitlySpecified = "true",
              !.pc = "FileExists"]
  /\ UNCHANGED <<buildState, composer, applied>>

\* a faulty check that hashes no file
hashMatchesAlways(files, path, expected) == TRUE

\* lines 65-66: ${StdUtils.HashFile} $3 "SHA2-512" "$packageFile", $3 == $1
hashMatches(files, path, expected) == sha512(files[path]) = expected

\* lines 60-71: a file that exists is extracted if it was given explicitly or
\* if its hash is the expected one
checkLocalFile ==
  /\ installer.pc = "FileExists"
  /\ IF FileExists(installer.files, installer.packageFile)
       THEN IF installer.isPackageFileExplicitlySpecified = "true"
              THEN installer' = [installer EXCEPT !.pc = "fun_extract"]
              ELSE installer' = [installer EXCEPT
                     !.hashed = TRUE,
                     !.r3 = sha512(installer.files[installer.packageFile]),
                     !.pc = IF hashMatches(installer.files, installer.packageFile, installer.r1)
                              THEN "fun_extract"
                              ELSE "downloadApplicationFiles"]
       ELSE installer' = [installer EXCEPT !.pc = "downloadApplicationFiles"]
  /\ UNCHANGED <<buildState, composer, applied>>

\* line 73: the package is downloaded to $packageFile, or the installer quits
downloadApplicationFiles ==
  /\ installer.pc = "downloadApplicationFiles"
  /\ \E ok \in BOOLEAN :
       IF ok
         THEN installer' = [installer EXCEPT
                !.downloaded = TRUE,
                !.files = [p \in (DOMAIN @) \cup {installer.packageFile} |->
                             IF p = installer.packageFile THEN "download" ELSE @[p]],
                !.pc = "fun_extract"]
         ELSE installer' = [installer EXCEPT !.pc = "quit"]
  /\ UNCHANGED <<buildState, composer, applied>>

\* lines 75-76: !insertmacro extractUsing7za "$packageFile"
extractUsing7za ==
  /\ installer.pc = "fun_extract"
  /\ installer' = [installer EXCEPT
       !.extracted = installer.files[installer.packageFile],
       !.pc = "extracted"]
  /\ UNCHANGED <<buildState, composer, applied>>

NextWeb ==
  \/ choosePackageFile
  \/ checkLocalFile
  \/ downloadApplicationFiles
  \/ extractUsing7za

\* a web installer compiled with any payload slots, started on any machine,
\* with or without the parameter, with any files around it
InitWeb ==
  /\ options = CHOOSE o \in SchedOptions :
                 o.target = "nsis" /\ ~o.buildUniversalInstaller /\ o.artifactName = "default"
                   /\ ~o.allowToChangeInstallationDirectory
  /\ host = "linux"
  /\ requested = <<"x64">>
  /\ DefaultApp
  /\ InitTarget
  /\ NoComposer
  /\ NoCall
  /\ installer \in {Started(names, machine, parameter, files) :
                      names \in (SUBSET PayloadKeys) \ {{}},
                      machine \in Machines,
                      parameter \in Parameters,
                      files \in [Paths -> Contents]}

SpecWeb == InitWeb /\ [][NextWeb]_vars

(***************************************************************************)
(* The task groups of one BuildUnit: the resource lookups of               *)
(* configureDefines (lines 474-580), the tasks of                          *)
(* computeCommonInstallerScriptHeader (674-705) and the license task of    *)
(* computeFinalScript (715-722), each task completing at a time of its     *)
(* own.  `composer` is the unit seen at this grain.                        *)
(***************************************************************************)
\* the kinds of unit: a portable one, a one-click and an assisted installer
Modes == {"portable", "oneClick", "assisted"}

\* the files and directories the lookups can find in the build resources
Resources == {"installerHeaderIcon.ico", "installerHeader.bmp", "uninstallerIcon.ico",
              "x86-unicode", "installer.nsh"}

\* lines 483-563: the tasks configureDefines adds, in the order it adds them
defineTasks(mode) ==
  IF mode = "oneClick"
    THEN <<"installerHeaderIcon", "uninstallerIcon">>
    ELSE <<"installerHeader", "installerSidebar", "uninstallerIcon">>

\* lines 676-703: the tasks of the common header, in the order they are added
headerTasks(mode) ==
  <<"pluginDir", "userPluginDir", "messages.yml">>
    \o (IF mode = "assisted" THEN <<"assistedMessages.yml">> ELSE <<>>)
    \o (IF mode # "portable" THEN <<"customInclude">> ELSE <<>>)

\* lines 717-720: the task of the final script of an installer
finalTasks(isInstaller) == IF isInstaller THEN <<"licensePage">> ELSE <<>>

\* the defines a lookup of configureDefines writes when it has its answer
definesOfTask(task, found) ==
  IF task = "installerHeaderIcon"
    THEN IF "installerHeaderIcon.ico" \in found THEN <<"HEADER_ICO">> ELSE <<>>
  ELSE IF task = "installerHeader"
    THEN IF "installerHeader.bmp" \in found
           THEN <<"MUI_HEADERIMAGE", "MUI_HEADERIMAGE_RIGHT", "MUI_HEADERIMAGE_BITMAP">>
           ELSE <<>>
  ELSE IF task = "installerSidebar"
    THEN <<"MUI_WELCOMEFINISHPAGE_BITMAP", "MUI_UNWELCOMEFINISHPAGE_BITMAP">>
  ELSE IF task = "uninstallerIcon"
    THEN IF "uninstallerIcon.ico" \in found
           THEN <<"UNINSTALLER_ICON", "MUI_UNICON">>
           ELSE <<>>
  ELSE <<>>

\* the declarations a task of the common header makes when it has its answer
linesOfTask(task, found) ==
  IF task = "pluginDir" THEN <<"!addplugindir /x86-unicode nsis-resources/plugins">>
  ELSE IF task = "userPluginDir"
    THEN IF "x86-unicode" \in found
           THEN <<"!addplugindir /x86-unicode build/x86-unicode">>
           ELSE <<>>
  ELSE IF task = "messages.yml" THEN <<"!include messages.nsh">>
  ELSE IF task = "assistedMessages.yml" THEN <<"!include assistedMessages.nsh">>
  ELSE IF task = "customInclude"
    THEN IF "installer.nsh" \in found
           THEN <<"!addincludedir build", "!include build/installer.nsh">>
           ELSE <<>>
  ELSE IF task = "licensePage" THEN <<"!insertmacro MUI_PAGE_LICENSE">>
  ELSE <<>>

\* lines 666-670: the declarations made before the task group exists
headerPreamble == <<"!include include/StdUtils.nsh", "!addincludedir include">>

\* NsisScriptGenerator.build(): the declarations, one on a line, in call order
RECURSIVE scriptGeneratorBuild(_)
scriptGeneratorBuild(lines) ==
  IF lines = <<>> THEN "" ELSE Head(lines) \o "\n" \o scriptGeneratorBuild(Tail(lines))

Range(s) == {s[i] : i \in 1..Len(s)}

\* a faulty awaitTasks that resolves while tasks are in flight
awaitTasksAtOnce(inFlight) == TRUE

\* taskManager.awaitTasks() resolves when every task of the group has settled
awaitTasksResolves(inFlight) == inFlight = {}

\* a unit that is about to compute its defines, or its header when it is portable
Composing(mode, found) ==
  [NotComposing EXCEPT
     !.pc = IF mode = "portable" THEN "header" ELSE "configureDefines",
     !.mode = mode, !.found = found]

\* taskManager.add(task) for every task of a group: each starts at once and
\* waits for its lookup
AddTasks(c, group, tasks) ==
  [c EXCEPT !.added = @ \cup {<<group, t>> : t \in Range(tasks)},
            !.inFlight = @ \cup {<<group, t>> : t \in Range(tasks)}]

\* lines 474-580: configureDefines adds its lookups
addDefineTasks ==
  /\ composer.pc = "configureDefines"
  /\ composer' = [AddTasks(composer, "defines", defineTasks(composer.mode)) EXCEPT
                    !.pc = "awaitDefines"]
  /\ UNCHANGED <<buildState, installer, applied>>

\* lines 662-703: the header's generator gets its first declarations and the
\* tasks are added
addHeaderTasks ==
  /\ composer.pc = "header"
  /\ composer' = [AddTasks(composer, "header", headerTasks(composer.mode)) EXCEPT
                    !.generator = headerPreamble,
                    !.pc = "awaitHeader"]
  /\ UNCHANGED <<buildState, installer, applied>>

\* lines 714-720: the final script of the installer adds the license task
addFinalTasks ==
  /\ composer.pc = "finalScript"
  /\ composer' = [AddTasks(composer, "final", finalTasks(TRUE)) EXCEPT
                    !.pc = "awaitFinal"]
  /\ UNCHANGED <<buildState, installer, applied>>

\* the lookup of one task in flight answers, and the task writes what it has
\* to: defines into the unit's table, declarations into the generator it was
\* given
completeTask ==
  \E t \in composer.inFlight :
    LET group == t[1]
        task == t[2]
        keys == definesOfTask(task, composer.found)
        lines == linesOfTask(task, composer.found)
        object == IF group = "header" THEN "scriptGenerator of the header"
                  ELSE "scriptGenerator of the final script"
    IN composer' = [composer EXCEPT
         !.inFlight = @ \ {t},
         !.defines = IF group = "defines" THEN @ \cup Range(keys) ELSE @,
         !.generator = IF group = "header" THEN @ \o lines ELSE @,
         !.script = IF group = "final" THEN @ \o scriptGeneratorBuild(lines) ELSE @,
         !.writes = IF group = "defines"
                      THEN @ \o [i \in 1..Len(keys) |->
                                   [task |-> task, group |-> group, target |-> keys[i]]]
                      ELSE IF lines # <<>>
                        THEN Append(@, [task |-> task, group |-> group, target |-> object])
                        ELSE @]
  /\ UNCHANGED <<buildState, installer, applied>>

\* lines 580, 705 and 722: awaitTasks() of the group resolves
awaitTasks ==
  /\ composer.pc \in {"awaitDefines", "awaitHeader", "awaitFinal"}
  /\ awaitTasksResolves(composer.inFlight)
  /\ composer' = [composer EXCEPT
       !.pc = IF @ = "awaitDefines" THEN "header"
              ELSE IF @ = "awaitHeader" THEN "build" ELSE "executeMakensis"]
  /\ UNCHANGED <<buildState, installer, applied>>

\* line 706: return scriptGenerator.build()
buildHeader ==
  /\ composer.pc = "build"
  /\ composer' = [composer EXCEPT
       !.header = scriptGeneratorBuild(composer.generator),
       !.pc = IF composer.mode = "portable" THEN "finalScript" ELSE "uninstaller"]
  /\ UNCHANGED <<buildState, installer, applied>>

\* line 420: the stub is compiled from the header and the uninstaller's defines
compileUninstaller ==
  /\ composer.pc = "uninstaller"
  /\ composer' = [composer EXCEPT
       !.compiled = Append(@, [kind |-> "uninstaller", defines |-> composer.defines,
                               script |-> composer.header,
                               inFlight |-> composer.inFlight]),
       !.pc = "finalScript"]
  /\ UNCHANGED <<buildState, installer, applied>>

\* line 361: the installer is compiled from the header and the final script
compileInstaller ==
  /\ composer.pc = "executeMakensis"
  /\ composer' = [composer EXCEPT
       !.compiled = Append(@, [kind |-> "installer", defines |-> composer.defines,
                               script |-> composer.header \o composer.script,
                               inFlight |-> composer.inFlight]),
       !.pc = "compiled"]
  /\ UNCHANGED <<buildState, installer, applied>>

NextCompose ==
  \/ addDefineTasks
  \/ addHeaderTasks
  \/ addFinalTasks
  \/ completeTask
  \/ awaitTasks
  \/ buildHeader
  \/ compileUninstaller
  \/ compileInstaller

\* a unit of every kind, with every set of resources
InitCompose ==
  /\ options = CHOOSE o \in SchedOptions :
                 o.target = "nsis" /\ ~o.buildUniversalInstaller /\ o.artifactName = "default"
                   /\ ~o.allowToChangeInstallationDirectory
  /\ host = "linux"
  /\ requested = <<"x64">>
  /\ DefaultApp
  /\ InitTarget
  /\ NoInstaller
  /\ NoCall
  /\ composer \in {Composing(mode, found) : mode \in Modes, found \in SUBSET Resources}

SpecCompose == InitCompose /\ [][NextCompose]_vars

(***************************************************************************)
(* The functions of the target, applied to inputs of their own.  `applied` is *)
(* one application: the function, its arguments and, once it has          *)
(* returned, its result.                                                   *)
(***************************************************************************)
\* a call that has not returned
Calling(fn, args) == [fn |-> fn, args |-> args, returned |-> FALSE, result |-> <<>>]

\* the file names an artifact name pattern can expand to: with "${ext}",
\* which is "exe" (line 176), at the end, or without it
InstallerNames == {st \o "exe" : st \in Stems} \cup Stems

\* lines 413-416: the uninstaller paths of two installers of one output directory
applyUninstallerPath ==
  /\ applied.fn = "uninstallerPath"
  /\ ~applied.returned
  /\ applied' = [applied EXCEPT
       !.returned = TRUE,
       !.result = <<uninstallerPath(applied.args[1]), uninstallerPath(applied.args[2])>>]
  /\ UNCHANGED <<buildState, installer, composer>>

\* the architecture maps a universal BuildUnit can be given: every non-empty
\* list of architectures in the packager's order
ArchLists ==
  {s \in UNION {[1..n -> {ArchOrder[i] : i \in 1..Len(ArchOrder)}] : n \in 1..Len(ArchOrder)} :
     IsOrdered(s)}

\* lines 262-267: what each packArch task of a unit writes, and the defines
\* after all of them
applyPackArchs ==
  /\ applied.fn = "packArchs"
  /\ ~applied.returned
  /\ LET as == applied.args[1] IN
     applied' = [applied EXCEPT
       !.returned = TRUE,
       !.result = [writes |-> [k \in 1..Len(as) |->
                                [arch |-> as[k], key |-> defineKey(as[k]),
                                 file |-> packageFileOf(as[k])]],
                   defines |-> putPackageFiles(NoDefines, as)]]
  /\ UNCHANGED <<buildState, installer, composer>>

\* a defines table and a commands table in the order of their keys: the
\* value of a define is a string, null or undefined, that of a command a
\* scalar or an array
DefineNames == {"APP_ID", "ONE_CLICK"}
DefineValues == {Null, Undefined, "", "com.a"}
DefineEntries == [name : DefineNames, value : DefineValues]
DefineTables ==
  {<<>>}
  \cup {<<e>> : e \in DefineEntries}
  \cup {t \in {<<e, f>> : e, f \in DefineEntries} : t[1].name # t[2].name}

Scalar(name, value) == [name |-> name, isArray |-> FALSE, scalar |-> value, items |-> <<>>]
Array(name, items) == [name |-> name, isArray |-> TRUE, scalar |-> "", items |-> items]

VersionKeys == <<"ProductName \"app\"", "FileVersion \"1.0.0\"">>
CommandTables ==
  {<<Scalar("OutFile", "\"Setup.exe\"")>> \o rest :
     rest \in {<<>>, <<Scalar("Unicode", "true")>>}
               \cup {<<Array("VIAddVersionKey", SubSeq(VersionKeys, 1, n))>> : n \in 0..2}
               \cup {<<Array("VIAddVersionKey", SubSeq(VersionKeys, 1, n)),
                       Scalar("Unicode", "true")>> : n \in 0..2}}

\* a faulty argument that writes every define with a value
defineArgValued(name, value) == "-D" \o name \o "=" \o value

\* lines 616-620: the argument of one define
defineArg(name, value) ==
  IF value \in {Null, Undefined}
    THEN "-D" \o name
    ELSE "-D" \o name \o "=" \o value

\* lines 625-632: the arguments of one command
commandArgs(c) ==
  IF c.isArray
    THEN [k \in 1..Len(c.items) |-> "-X" \o c.name \o " " \o c.items[k]]
    ELSE <<"-X" \o c.name \o " " \o c.scalar>>

\* lines 612-635: the arguments makensis is started with
makensisArgs(warningsAsErrors, defines, commands) ==
  LET ofCommands[k \in 0..Len(commands)] ==
        IF k = 0 THEN <<>> ELSE ofCommands[k - 1] \o commandArgs(commands[k])
  IN (IF warningsAsErrors = "false" THEN <<>> ELSE <<"-WX">>)
       \o <<"-INPUTCHARSET", "UTF8">>
       \o [i \in 1..Len(defines) |-> defineArg(defines[i].name, defines[i].value)]
       \o ofCommands[Len(commands)]
       \o <<"-">>

\* lines 611-635 of executeMakensis
applyMakensisArgs ==
  /\ applied.fn = "executeMakensis"
  /\ ~applied.returned
  /\ applied' = [applied EXCEPT
       !.returned = TRUE,
       !.result = makensisArgs(applied.args[1], applied.args[2], applied.args[3])]
  /\ UNCHANGED <<buildState, installer, composer>>

\* the unpacked sizes packArch can report, in bytes: around each of the
\* first three multiples of 1024
UnpackedSizes == 0..3073

\* a faulty conversion that drops the remainder
floorKb(unpackedSize) == ToString(unpackedSize \div 1024)

\* line 277: Math.ceil(unpackedSize / 1024).toString()
unpackedSizeKb(unpackedSize) ==
  ToString(IF unpackedSize % 1024 = 0
             THEN unpackedSize \div 1024
             ELSE unpackedSize \div 1024 + 1)

\* lines 275-277: the value of the unpacked-size define of one architecture
applyUnpackedSize ==
  /\ applied.fn = "unpackedSize"
  /\ ~applied.returned
  /\ applied' = [applied EXCEPT
       !.returned = TRUE,
       !.result = unpackedSizeKb(applied.args[1])]
  /\ UNCHANGED <<buildState, installer, composer>>

NextPure ==
  \/ applyUninstallerPath
  \/ applyPackArchs
  \/ applyMakensisArgs
  \/ applyUnpackedSize

InitPure ==
  /\ options = CHOOSE o \in SchedOptions :
                 o.target = "nsis" /\ ~o.buildUniversalInstaller /\ o.artifactName = "default"
                   /\ ~o.allowToChangeInstallationDirectory
  /\ host = "linux"
  /\ requested = <<"x64">>
  /\ DefaultApp
  /\ InitTarget
  /\ NoInstaller
  /\ NoComposer
  /\ \/ applied \in {Calling("uninstallerPath", <<a, b>>) : a, b \in InstallerNames}
     \/ applied \in {Calling("packArchs", <<as>>) : as \in ArchLists}
     \/ applied \in {Calling("unpackedSize", <<n>>) : n \in UnpackedSizes}
     \/ applied \in {Calling("executeMakensis", <<w, d, c>>) :
                       w \in Tri, d \in DefineTables, c \in CommandTables}

SpecPure == InitPure /\ [][NextPure]_vars

(***************************************************************************)
(* Properties.                                                             *)
(***************************************************************************)
\* the kinds of the makensis invocations of a unit, in the order they started
Kinds(v) == [k \in 1..Len(v.invocations) |-> v.invocations[k].kind]

\* executeMakensis of kind `kind` is running, from its first probe to the exit
\* of makensis
InMakensis(v, kind) ==
  v.inv = kind /\ v.phase \in {"probe", "backoff", "spawn", "compile"}

\* a one-click, single-architecture installer built from the template script
OneClickTemplateUnit(v) ==
  /\ ~isPortable(options)
  /\ oneClickOf(options)
  /\ Len(v.archs) = 1
  /\ v.script = "template"

\* C1: a non-portable, single-architecture, one-click unit without a custom
\* script invokes the compiler for the uninstaller once and then for the
\* installer once, and the installer's defines hold UNINSTALLER_OUT_FILE (the
\* native path of the uninstaller) before the installer's compile starts.
C1_UninstallerThenInstaller ==
  \A u \in UnitIds :
    LET v == units[u] IN
    OneClickTemplateUnit(v) =>
      /\ Kinds(v) \in {<<>>, <<"uninstaller">>, <<"uninstaller", "installer">>}
      /\ v.phase \in {"sign", "update", "done"} =>
           Kinds(v) = <<"uninstaller", "installer">>
      /\ InMakensis(v, "installer") =>
           /\ Has(v.defines, "UNINSTALLER_OUT_FILE")
           /\ v.defines["UNINSTALLER_OUT_FILE"] = uninstallerPath(v.installerPath)
      /\ \A k \in 1..Len(v.invocations) :
           v.invocations[k].kind = "installer" =>
             /\ Has(v.invocations[k].defines, "UNINSTALLER_OUT_FILE")
             /\ v.invocations[k].defines["UNINSTALLER_OUT_FILE"]
                  = uninstallerPath(v.installerPath)

\* such a unit has completed, after both compiles
C1_Witness ==
  \E u \in UnitIds :
    /\ OneClickTemplateUnit(units[u])
    /\ units[u].phase = "done"
    /\ Kinds(units[u]) = <<"uninstaller", "installer">>

\* C2: with buildUniversalInstaller = false every build() call has made one
\* unit for its one architecture, and finishBuild() makes none: after N
\* build() calls and finishBuild() there are exactly N units.
C2_OneUnitPerBuildCall ==
  ~options.buildUniversalInstaller =>
    /\ Len(units) = Len(archs)
    /\ \A k \in 1..Len(units) : units[k].archs = <<archs[k]>>
    /\ builds = <<>>

\* two build() calls and finishBuild() have run, and there are two units
C2_Witness ==
  /\ ~options.buildUniversalInstaller
  /\ caller.pc = "done"
  /\ Len(archs) = 2
  /\ Len(units) = 2

\* the builds finishBuild() is to make in universal mode for K architectures
ExpectedBuilds ==
  IF options.artifactName = "withArch" /\ Len(archs) >= 2
    THEN <<archs>> \o [k \in 1..Len(archs) |-> <<archs[k]>>]
    ELSE <<archs>>

\* C3: in universal mode build() makes no unit, and finishBuild() schedules
\* K+1 builds (all K architectures, then each architecture alone) when the
\* artifact name pattern holds the arch token and K >= 2, otherwise the one
\* build of all K architectures; its loop makes the units in that order, all
\* of them unless a buildInstaller() call threw.
C3_UniversalBuilds ==
  options.buildUniversalInstaller =>
    IF caller.pc = "idle"
      THEN units = <<>> /\ builds = <<>>
      ELSE /\ builds = ExpectedBuilds
           /\ Len(units) <= Len(builds)
           /\ \A k \in 1..Len(units) : units[k].archs = builds[k]
           /\ (caller.pc # "finish" /\ ~caller.loopThrew) =>
                Len(units) = Len(builds)

\* finishBuild() has ended after K+1 units for K >= 2 architectures
C3_Witness ==
  /\ options.buildUniversalInstaller
  /\ options.artifactName = "withArch"
  /\ caller.pc = "done"
  /\ Len(archs) >= 2
  /\ Len(units) = Len(archs) + 1
  /\ units[1].archs = archs

\* the phases of the queued task: the uninstaller sub-build, the installer's
\* compile, the signing and the update information
TaskPhases ==
  {"probe", "backoff", "spawn", "compile", "exec", "vm", "poll", "usign",
   "final", "sign", "update"}

C5_UninstallerDeleted ==
  \A u \in UnitIds :
    units[u].phase \in {"done", "failed"} =>
      uninstallerPath(units[u].installerPath) \notin disk

\* a step of the uninstaller sub-build (the stub's compile, the stub's
\* execution with its fallback, the signing of the uninstaller) has failed
SubBuildFailed(v) ==
  \/ "makensis-uninstaller" \in v.threw
  \/ "exec" \in v.threw /\ host # "catalina"
  \/ "vm" \in v.threw
  \/ "sign-uninstaller" \in v.threw

C7_BoundedRetries ==
  \A u \in UnitIds :
    (units[u].busy = MaxBusy /\ units[u].lastOpen = "EBUSY") =>
      units[u].phase # "backoff"

\* C8: when the probes found the file locked k times and then not locked,
\* k delays have elapsed, the probe that succeeded is the (k+1)-th, no error
\* is raised, and makensis is not started while the last probe reported the
\* file locked.
C8_LockedThenReleased ==
  \A u \in UnitIds :
    LET v == units[u] IN
    /\ v.phase \in {"spawn", "compile"} =>
         /\ v.lastOpen \in OpenResults \ {"EBUSY"}
         /\ v.delays = v.busy
         /\ v.probes = v.busy + 1
         /\ v.err = "none"
    /\ v.phase = "backoff" => v.lastOpen = "EBUSY"
    /\ v.wasBusyBefore <=> v.delays > 0

\* makensis is about to start after two locked probes and two delays
C8_Witness ==
  \E u \in UnitIds :
    /\ units[u].phase = "spawn"
    /\ units[u].busy = 2
    /\ units[u].delays = 2
    /\ units[u].probes = 3
    /\ units[u].lastOpen # "EBUSY"

\* C9: a configuration error is reported before any subprocess has started.
C9_ConfigErrorBeforeSubprocess ==
  \A u \in UnitIds : units[u].err = "config" => units[u].calls = <<>>

\* an option nsisOptions.ts documents as "assisted installer only" is set
AssistedOnlyOptionSet(o) ==
  \/ o.allowElevation # "unset"
  \/ o.allowToAddShortcut
  \/ o.allowToChangeInstallationDirectory
  \/ o.removeDefaultUninstallWelcomePage

\* C10: with one-click mode and any assisted-only option set, the build fails
\* with a configuration error: the unit never gets past configureDefines.
C10_AssistedOnlyRejected ==
  \A u \in UnitIds :
    (~isPortable(options) /\ oneClickOf(options) /\ AssistedOnlyOptionSet(options)) =>
      /\ units[u].phase \in {"begin", "pack", "configure", "threw", "rejected"}
      /\ units[u].phase = "rejected" => units[u].err \in {"config", "external"}

\* the defines of a unit are complete: configureDefines has returned
DefinesEmitted(v) == v.phase \notin {"begin", "pack", "configure", "threw"}

\* the defines the assisted-only options stand for
AssistedOnlyKeys ==
  {"MULTIUSER_INSTALLMODE_ALLOW_ELEVATION", "ALLOW_TO_ADD_SHORTCUT",
   "allowToChangeInstallationDirectory", "removeDefaultUninstallWelcomePage"}

\* C11: with perMachine = false and oneClick = true, the defines that are
\* emitted hold none of the assisted-only keys.
C11_NoAssistedOnlyKeys ==
  \A u \in UnitIds :
    (~isPortable(options) /\ oneClickOf(options) /\ ~options.perMachine
       /\ DefinesEmitted(units[u])) =>
      /\ AssistedOnlyKeys \cap DOMAIN units[u].defines = {}
      /\ \A k \in 1..Len(units[u].invocations) :
           AssistedOnlyKeys \cap DOMAIN units[u].invocations[k].defines = {}

\* C12: BUILD_UNINSTALLER is among the defines of the compiler invocation of
\* the uninstaller stub, and among those of no compiler invocation of an
\* installer.
C12_BuildUninstallerMarker ==
  \A u \in UnitIds :
    \A k \in 1..Len(units[u].invocations) :
      LET call == units[u].invocations[k] IN
      /\ call.kind = "uninstaller" =>
           /\ Has(call.defines, "BUILD_UNINSTALLER")
           /\ call.defines["BUILD_UNINSTALLER"] = Null
      /\ call.kind = "installer" => ~Has(call.defines, "BUILD_UNINSTALLER")

\* the installer is being compiled after its stub was
C12_Witness ==
  \E u \in UnitIds :
    /\ units[u].phase = "compile"
    /\ Len(units[u].invocations) = 2
    /\ Has(units[u].invocations[1].defines, "BUILD_UNINSTALLER")
    /\ units[u].invocations[2].kind = "installer"
    /\ ~Has(units[u].definesUninstaller, "BUILD_UNINSTALLER")

\* the positions of the calls of a collaborator in the calls of a unit
CallsOf(v, name) == {k \in 1..Len(v.calls) : v.calls[k] = name}

\* C13: when the direct execution of the compiled stub fails, the virtual
\* machine is tried, once, before the sub-build is failed, on every host.
C13_VmFallbackOnEveryHost ==
  \A u \in UnitIds :
    LET v == units[u] IN
    /\ "exec" \in v.threw => (v.phase = "vm" \/ CallsOf(v, "vm") # {})
    /\ Cardinality(CallsOf(v, "vm")) <= 1

\* C14: the wait for the uninstaller of the virtual machine takes at most
\* PollLimit delays, and when it ends without the file the sub-build has
\* failed: the uninstaller is not signed and the installer is not compiled.
C14_PollTimeoutFails ==
  \A u \in UnitIds :
    LET v == units[u] IN
    /\ v.i <= PollLimit
    /\ v.timedOut =>
         /\ v.phase = "failed"
         /\ CallsOf(v, "sign") = {}
         /\ \A k \in 1..Len(v.invocations) : v.invocations[k].kind # "installer"

\* C15: once the cancellation token has been raised before the first
\* compiler invocation of a unit has started, no compiler invocation (of the
\* stub or of the installer) is started for that unit: the first invocation
\* of every unit started while the token was not raised.
C15_NoCompileAfterCancel ==
  \A u \in UnitIds :
    units[u].invocations # <<>> => ~units[u].invocations[1].cancelled

\* the elevation helper is packaged unless packElevateHelper is false
\* (nsisOptions.ts:235-239, "@default true")
ElevateHelperPackaged(o) == o.packElevateHelper # "false"

\* C16: whenever update information is produced for an installer, it says
\* "admin rights required" exactly when the install is per-machine or an
\* elevation helper is packaged.
C16_AdminRightsFlag ==
  \A u \in UnitIds :
    units[u].updateInfo.produced =>
      (units[u].updateInfo.isAdminRightsRequired
         <=> (options.perMachine \/ ElevateHelperPackaged(options)))

\* C17: with perMachine = true, packElevateHelper has no effect: a build with
\* any other value of it has the same defines and the same update
\* information as this one.
C17_PackElevateHelperIgnored ==
  \A u \in UnitIds :
    (options.perMachine /\ units[u].phase = "done") =>
      \A p \in Tri :
        LET other == [options EXCEPT !.packElevateHelper = p]
            d == firstDefines(options, appInfo)
        IN /\ firstDefines(other, appInfo) = d
           /\ configureDefines(other, d) = configureDefines(options, d)
           /\ computeUpdateInfo(other) = units[u].updateInfo

\* the unit holds its complete defines
HoldsDefines(v) == DefinesEmitted(v) /\ v.phase \notin Ended

\* C18: for a portable target a string unpackDirName is emitted verbatim as
\* UNPACK_DIR_NAME, an unset one makes a generated build id be emitted, and
\* an explicit false makes no UNPACK_DIR_NAME be emitted.
C18_UnpackDirName ==
  \A u \in UnitIds :
    LET d == units[u].defines IN
    (isPortable(options) /\ HoldsDefines(units[u])) =>
      /\ options.unpackDirName = "dir" =>
           Has(d, "UNPACK_DIR_NAME") /\ d["UNPACK_DIR_NAME"] = "dir"
      /\ options.unpackDirName = "unset" =>
           Has(d, "UNPACK_DIR_NAME") /\ d["UNPACK_DIR_NAME"] = Ksuid
      /\ options.unpackDirName = "false" => ~Has(d, "UNPACK_DIR_NAME")

\* the listing of the package of some architecture of the unit did not parse
SomeListingUnparsed(v) ==
  \E k \in 1..Len(v.archs) : archiveInfo[v.archs[k]] = Unparsed

\* C19: ESTIMATED_SIZE is left out of the defines whenever the listing of at
\* least one architecture of the unit does not parse; when every listing
\* parses it is the rounded sum of the sizes of all architectures.
C19_EstimatedSize ==
  \A u \in UnitIds :
    LET v == units[u] IN
    (HoldsDefines(v) /\ ~(isPortable(options) /\ options.useZip)) =>
      IF SomeListingUnparsed(v)
        THEN ~Has(v.defines, "ESTIMATED_SIZE")
        ELSE /\ Has(v.defines, "ESTIMATED_SIZE")
             /\ v.defines["ESTIMATED_SIZE"]
                  = ToString(roundKb(sumOfListings(archiveInfo, v.archs)))

\* C20: APP_GUID is the configured guid unchanged when one is configured, and
\* otherwise the UUID derived from the application identifier and the fixed
\* namespace alone, in the defines of the unit and of every compiler
\* invocation: builds of the same application identifier emit the same GUID.
C20_GuidDeterministic ==
  \A u \in UnitIds :
    LET v == units[u]
        guid == IF options.guid # <<>>
                  THEN text(options.guid)
                  ELSE uuidV5(appInfo.id, "50e065bc-3134-11e6-9bab-38c9862bdaf3")
    IN /\ (v.phase \notin {"begin"} \cup Ended) =>
            Has(v.defines, "APP_GUID") /\ v.defines["APP_GUID"] = guid
       /\ \A k \in 1..Len(v.invocations) :
            /\ Has(v.invocations[k].defines, "APP_GUID")
            /\ v.invocations[k].defines["APP_GUID"] = guid

\* an installer of the second application is compiled with a derived GUID
C20_Witness ==
  \E u \in UnitIds :
    /\ options.guid = <<>>
    /\ appInfo.id = "com.b"
    /\ units[u].phase = "compile"
    /\ units[u].inv = "installer"
    /\ units[u].invocations[Len(units[u].invocations)].defines["APP_GUID"]
         = uuidV5("com.b", ELECTRON_BUILDER_NS_UUID)

\* a guid's pieces with a separator in the place of each backslash
RECURSIVE BackslashFree(_)
BackslashFree(guid) ==
  IF guid = <<>>
    THEN <<>>
    ELSE <<IF Head(guid) = "\\" THEN " - " ELSE Head(guid)>> \o BackslashFree(Tail(guid))

\* C21: UNINSTALL_APP_KEY is the GUID with every backslash replaced, and
\* UNINSTALL_REGISTRY_KEY_2, built from the unmodified GUID, is among the
\* defines exactly when UNINSTALL_APP_KEY differs from the GUID, in the defines
\* of the unit and of every compiler invocation.
C21_LegacyUninstallKey ==
  \A u \in UnitIds :
    LET v == units[u]
        guid == IF options.guid # <<>>
                  THEN options.guid
                  ELSE <<uuidV5(appInfo.id, "50e065bc-3134-11e6-9bab-38c9862bdaf3")>>
        Keys(d) ==
          /\ Has(d, "UNINSTALL_APP_KEY")
          /\ d["UNINSTALL_APP_KEY"] = text(BackslashFree(guid))
          /\ \A i \in 1..Len(BackslashFree(guid)) : BackslashFree(guid)[i] # "\\"
          /\ Has(d, "UNINSTALL_REGISTRY_KEY_2") <=> d["UNINSTALL_APP_KEY"] # d["APP_GUID"]
          /\ Has(d, "UNINSTALL_REGISTRY_KEY_2") =>
               d["UNINSTALL_REGISTRY_KEY_2"]
                 = "Software\\Microsoft\\Windows\\CurrentVersion\\Uninstall\\" \o text(guid)
    IN /\ (v.phase \notin {"begin"} \cup Ended) => Keys(v.defines)
       /\ \A k \in 1..Len(v.invocations) : Keys(v.invocations[k].defines)

\* an installer whose guid holds backslashes is compiled with both keys
C21_Witness ==
  \E u \in UnitIds :
    /\ \E i \in 1..Len(options.guid) : options.guid[i] = "\\"
    /\ units[u].phase = "compile"
    /\ units[u].inv = "installer"
    /\ Has(units[u].invocations[Len(units[u].invocations)].defines, "UNINSTALL_REGISTRY_KEY_2")
    /\ units[u].invocations[Len(units[u].invocations)].defines["UNINSTALL_APP_KEY"]
         = "vendor - app - guid"

\* C22: in the web installer a non-empty "package-file" parameter takes
\* precedence over the architecture-default payload: the selection by
\* architecture (ARM64 native, then AMD64, else 32-bit) happens only when the
\* parameter is empty, the package file is then the parameter itself, and a
\* file given explicitly that exists is extracted without a download.
C22_PackageFileParameterFirst ==
  LET chosen == installer.pc \notin {"absent", "installApplicationFiles"}
      explicit == installer.parameter # ""
  IN /\ installer.selected => ~explicit
     /\ (chosen /\ explicit) =>
          /\ installer.packageFile = installer.parameter
          /\ installer.isPackageFileExplicitlySpecified = "true"
     /\ (chosen /\ ~explicit) => installer.selected
     /\ (installer.selected /\ installer.names = {"APP_64", "APP_32", "APP_ARM64"}) =>
          installer.packageFile =
            "$EXEDIR/" \o (IF installer.machine = "arm64" THEN "APP_ARM64.nsis.7z"
                           ELSE IF installer.machine = "amd64" THEN "APP_64.nsis.7z"
                           ELSE "APP_32.nsis.7z")
     /\ (chosen /\ explicit /\ ~installer.downloaded
           /\ installer.files[installer.parameter] # "<absent>") =>
          /\ installer.pc \in {"FileExists", "fun_extract", "extracted"}
          /\ installer.pc = "extracted" =>
               installer.extracted = installer.files[installer.parameter]

\* on an ARM64 machine, with all three payloads compiled in, the file given by
\* the parameter has been extracted and nothing was downloaded
C22_Witness ==
  /\ installer.pc = "extracted"
  /\ installer.parameter = "C:/update/package.7z"
  /\ installer.names = {"APP_64", "APP_32", "APP_ARM64"}
  /\ installer.machine = "arm64"
  /\ ~installer.downloaded
  /\ ~installer.selected
  /\ installer.extracted = "something else"

\* C23: a package found locally under the architecture-default name is
\* extracted without a download only if its SHA-512 is the hash compiled in
\* for the selected architecture; on a mismatch the local file is ignored and
\* the package is downloaded; a package file given explicitly is never hashed.
C23_LocalPackageHashChecked ==
  LET default == installer.isPackageFileExplicitlySpecified = "false"
      Baked(k) == installer.r4 = nameOf(installer.names, k)
                    /\ installer.r1 = hashOf(installer.names, k)
  IN /\ default => \E k \in PayloadKeys : Baked(k)
     /\ (default /\ installer.pc \in {"fun_extract", "extracted"} /\ ~installer.downloaded) =>
          /\ installer.hashed
          /\ sha512(installer.files[installer.packageFile]) = installer.r1
     /\ (installer.hashed /\ installer.r3 # installer.r1) =>
          /\ installer.pc \in {"downloadApplicationFiles", "quit", "fun_extract", "extracted"}
          /\ installer.pc \in {"fun_extract", "extracted"} => installer.downloaded
          /\ installer.pc = "extracted" => installer.extracted = "download"
     /\ installer.isPackageFileExplicitlySpecified = "true" => ~installer.hashed

\* the local package of the machine's architecture held something else: it was
\* hashed, then the package was downloaded and extracted
C23_Witness ==
  /\ installer.pc = "extracted"
  /\ installer.parameter = ""
  /\ installer.hashed
  /\ installer.r3 = sha512("something else")
  /\ installer.r1 = sha512(payloadOf("APP_64"))
  /\ installer.downloaded
  /\ installer.extracted = "download"

\* the tasks of a group that were added and have not settled
Unsettled(c, groups) == {t \in c.inFlight : t[1] \in groups}

\* C24: every task added to a task group has completed before the script
\* generator it writes to is serialized and before the compiler invocation
\* that consumes its result begins: the header is built with no header task
\* in flight, and each compile starts with no task of its unit in flight.
C24_TasksJoinedBeforeUse ==
  /\ composer.pc \in {"uninstaller", "finalScript", "awaitFinal", "executeMakensis", "compiled"} =>
       /\ Unsettled(composer, {"header"}) = {}
       /\ \A t \in composer.added :
            t[1] = "header" =>
              \A i \in 1..Len(linesOfTask(t[2], composer.found)) :
                \E j \in 1..Len(composer.generator) :
                  composer.generator[j] = linesOfTask(t[2], composer.found)[i]
  /\ composer.pc \in {"executeMakensis", "compiled"} =>
       Unsettled(composer, {"defines", "header", "final"}) = {}
  /\ \A k \in 1..Len(composer.compiled) :
       /\ composer.compiled[k].inFlight = {}
       /\ \A t \in composer.added :
            t[1] = "defines" =>
              \A i \in 1..Len(definesOfTask(t[2], composer.found)) :
                definesOfTask(t[2], composer.found)[i] \in composer.compiled[k].defines

\* an assisted installer with every resource was compiled after five header
\* tasks, three define tasks and the license task
C24_Witness ==
  /\ composer.pc = "compiled"
  /\ composer.mode = "assisted"
  /\ Cardinality(composer.added) = 9
  /\ Len(composer.compiled) = 2
  /\ "MUI_UNICON" \in composer.compiled[2].defines
  /\ Len(composer.generator) = 8

\* C25: no shared mutable state is written by more than one of the tasks that
\* run concurrently: two tasks of one group never write the same define key
\* and never mutate the same script generator.
C25_DisjointWriters ==
  \A i, j \in 1..Len(composer.writes) :
    (/\ composer.writes[i].group = composer.writes[j].group
     /\ composer.writes[i].task # composer.writes[j].task) =>
      composer.writes[i].target # composer.writes[j].target

\* C26: the declarations of the serialized common header are in the order in
\* which the tasks were issued, whatever the order in which they completed.
C26_HeaderInIssueOrder ==
  composer.pc \in {"uninstaller", "finalScript", "awaitFinal", "executeMakensis", "compiled"} =>
    LET tasks == headerTasks(composer.mode)
        issued[k \in 0..Len(tasks)] ==
          IF k = 0 THEN headerPreamble
          ELSE issued[k - 1] \o linesOfTask(tasks[k], composer.found)
    IN composer.header = scriptGeneratorBuild(issued[Len(tasks)])

\* C27: the uninstaller's temporary path is an injective function of the
\* installer's file name: two installers of one output directory whose file
\* names differ get different uninstaller paths.
C27_UninstallerPathInjective ==
  (/\ applied.fn = "uninstallerPath"
   /\ applied.returned
   /\ applied.args[1] # applied.args[2]) =>
    applied.result[1] # applied.result[2]

\* C28: with the universal installer enabled, build() only records the
\* architecture and starts no BuildUnit: until finishBuild() is called there
\* is no unit, hence no 'artifact build started' notification and no compiler
\* invocation, and the recorded architectures are those built so far.
C28_UniversalBuildOnlyRecords ==
  (shouldBuildUniversalInstaller(options) /\ caller.pc \in {"idle", "build"}) =>
    /\ caller.pc = "idle"
    /\ units = <<>>
    /\ cur = 0
    /\ queue = <<>>
    /\ running = {}
    /\ disk = {}
    /\ Len(archs) <= Len(requested)
    /\ \A i \in 1..Len(archs) : archs[i] = requested[i]

\* build() was called for two architectures of a universal installer and
\* finishBuild() has not been called
C28_Witness ==
  /\ shouldBuildUniversalInstaller(options)
  /\ caller.pc = "idle"
  /\ Len(archs) = 2
  /\ Len(requested) = 2
  /\ units = <<>>

\* C29: each architecture of a BuildUnit writes its payload defines into a
\* slot of its own: two different architectures of one unit never write the
\* same define key, so the unit's table holds the package of each.
C29_OwnSlotPerArch ==
  (applied.fn = "packArchs" /\ applied.returned) =>
    LET w == applied.result.writes IN
    /\ \A i, j \in 1..Len(w) : w[i].arch # w[j].arch => w[i].key # w[j].key
    /\ \A i \in 1..Len(w) : applied.result.defines[w[i].key] = w[i].file

\* C30: the arguments of makensis are -WX first unless warningsAsErrors is
\* false, then -INPUTCHARSET UTF8, then one -D argument per define in the
\* order of the table (-Dname for a define without a value, -Dname=value
\* otherwise), then one -X argument per scalar command and one per element of
\* each command that is a list, and "-" last.
C30_MakensisArguments ==
  (applied.fn = "executeMakensis" /\ applied.returned) =>
    LET args == applied.result
        defines == applied.args[2]
        commands == applied.args[3]
        wx == IF applied.args[1] = "false" THEN 0 ELSE 1
        CountOf(j) == IF commands[j].isArray THEN Len(commands[j].items) ELSE 1
        before[j \in 0..Len(commands)] == IF j = 0 THEN 0 ELSE before[j - 1] + CountOf(j)
        d0 == wx + 2
        x0 == d0 + Len(defines)
    IN /\ Len(args) = x0 + before[Len(commands)] + 1
       /\ wx = 1 => args[1] = "-WX"
       /\ \A i \in 1..Len(args) : args[i] = "-WX" => (i = 1 /\ wx = 1)
       /\ args[wx + 1] = "-INPUTCHARSET"
       /\ args[wx + 2] = "UTF8"
       /\ \A i \in 1..Len(defines) :
            args[d0 + i] =
              IF defines[i].value \in {"<null>", "<undefined>"}
                THEN "-D" \o defines[i].name
                ELSE "-D" \o defines[i].name \o "=" \o defines[i].value
       /\ \A j \in 1..Len(commands) :
            IF commands[j].isArray
              THEN \A k \in 1..Len(commands[j].items) :
                     args[x0 + before[j - 1] + k]
                       = "-X" \o commands[j].name \o " " \o commands[j].items[k]
              ELSE args[x0 + before[j - 1] + 1]
                     = "-X" \o commands[j].name \o " " \o commands[j].scalar
       /\ args[Len(args)] = "-"

\* warnings are allowed, a flag follows a valued define, and a list of two
\* version keys stands between two scalar commands
C30_Witness ==
  /\ applied.fn = "executeMakensis"
  /\ applied.returned
  /\ applied.result =
       <<"-INPUTCHARSET", "UTF8", "-DAPP_ID=com.a", "-DONE_CLICK",
         "-XOutFile \"Setup.exe\"", "-XVIAddVersionKey ProductName \"app\"",
         "-XVIAddVersionKey FileVersion \"1.0.0\"", "-XUnicode true", "-">>

\* C31: the unpacked-size define of an architecture is the size in bytes
\* divided by 1024 and rounded up, written as a whole number: 0 bytes give
\* "0", 1024 give "1" and 1025 give "2".
C31_UnpackedSizeRoundedUp ==
  (applied.fn = "unpackedSize" /\ applied.returned) =>
    LET bytes == applied.args[1]
    IN /\ \E kb \in 0..(bytes + 1) :
            /\ applied.result = ToString(kb)
            /\ 1024 * kb >= bytes
            /\ 1024 * (kb - 1) < bytes
       /\ bytes = 0 => applied.result = "0"
       /\ bytes = 1024 => applied.result = "1"
       /\ bytes = 1025 => applied.result = "2"

\* 1025 bytes were converted to "2"
C31_Witness ==
  /\ applied.fn = "unpackedSize"
  /\ applied.returned
  /\ applied.args[1] = 1025
  /\ applied.result = "2"

\* C32: when no uninstaller sub-build is made for a unit (a portable target,
\* or a custom installer script), the defines that become the -D arguments of
\* the installer's compiler invocation hold no UNINSTALLER_OUT_FILE, neither
\* with a value nor as a bare flag.
C32_NoOutFileDefineWithoutSubBuild ==
  \A u \in UnitIds :
    units[u].script \in {"portable", "custom"} =>
      \A k \in 1..Len(units[u].invocations) :
        units[u].invocations[k].kind = "installer" =>
          ~Has(units[u].invocations[k].defines, "UNINSTALLER_OUT_FILE")

\* C33: every "artifact build completed" notification follows an "artifact
\* build started" notification for the same file, and the installer's one is
\* emitted only after its compilation and its signing have ended well.  The
\* web installer emits a completed notification for every package file at
\* lines 280-287, and a started notification for the installer file alone.
C33_CompletedFollowsStarted ==
  \A u \in UnitIds :
    LET v == units[u] IN
    /\ v.completed => v.started
    /\ \A f \in v.packagesCompleted :
         v.started /\ f = installerFilename(options, v.archs)
    /\ v.completed => v.phase \in {"done", "finished"}
    /\ v.completed /\ v.phase = "done" =>
         /\ v.calls # <<>> /\ v.calls[Len(v.calls)] = "sign"
         /\ \E i \in 1..Len(v.invocations) : v.invocations[i].kind = "installer"

\* C34: when finishBuild() has ended, on whatever path, it has called
\* packageHelper.finishBuild() exactly once.  A task of the build queue that
\* failed makes super.finishBuild() throw, and the call at line 152, or at
\* line 166 inside the finally block, is never reached.
C34_HelperFinishedOnce ==
  caller.pc = "done" => helperFinished = 1

\* C35: a unit whose script is a custom one, or the portable one, has no
\* uninstaller build: makensis is started for the installer alone, once when
\* the task is done, the stub is run neither directly nor in the virtual
\* machine, the only signing is the installer's, after its compilation, and
\* the unlink beside it has no file to delete.
C35_NoUninstallerBuild ==
  \A u \in UnitIds :
    LET v == units[u]
        signs == {i \in 1..Len(v.calls) : v.calls[i] = "sign"}
    IN v.script \in {"custom", "portable"} =>
         /\ Len(v.invocations) <= 1
         /\ \A i \in 1..Len(v.invocations) : v.invocations[i].kind = "installer"
         /\ v.phase = "done" => Len(v.invocations) = 1
         /\ \A i \in 1..Len(v.calls) : v.calls[i] \notin {"exec", "vm"}
         /\ Cardinality(signs) <= 1
         /\ \A i \in signs : \E j \in 1..(i - 1) : v.calls[j] = "makensis"
         /\ ~Has(v.definesUninstaller, "BUILD_UNINSTALLER")
         /\ ~Has(v.definesUninstaller, "UNINSTALLER_OUT_FILE")
         /\ unlinked(v.defines) = {}

C35_Witness ==
  \E u \in UnitIds :
    /\ units[u].script = "custom"
    /\ units[u].phase = "done"
    /\ Len(units[u].invocations) = 1

\* C36: a unit whose effectiveOptionComputed hook answered true has emitted
\* "artifact build started" and nothing more: it is not in the build queue
\* and is not run by it, makensis was never started for it, nothing was
\* signed, and no "artifact build completed" is emitted for its installer.
C36_HookStopsUnit ==
  \A u \in UnitIds :
    LET v == units[u] IN
    v.stopped =>
      /\ v.phase \in {"return", "skipped"}
      /\ v.started
      /\ ~v.completed
      /\ u \notin running
      /\ \A i \in 1..Len(queue) : queue[i] # u
      /\ v.invocations = <<>>
      /\ \A i \in 1..Len(v.calls) : v.calls[i] \notin {"makensis", "sign"}
      /\ v.phase = "return" => Has(v.defines, "APP_ID")

C36_Witness ==
  \E u \in UnitIds :
    /\ units[u].stopped
    /\ units[u].phase = "skipped"
    /\ caller.pc = "done"

\* C37: what the uninstaller's build changes in its copies of the defines
\* and of the commands never reaches the installer's makensis: the installer
\* is compiled with the full VERSION, VIProductVersion and VIAddVersionKey,
\* without BUILD_UNINSTALLER, and apart from VERSION its defines differ from
\* those of the stub's compilation only in UNINSTALLER_OUT_FILE, which is the
\* path on this platform and never the Z: path given to the stub.
C37_InstallerKeepsItsDefines ==
  \A u \in UnitIds :
    LET v == units[u] IN
    \A i \in 1..Len(v.invocations) :
      LET inst == v.invocations[i] IN
      inst.kind = "installer" =>
        /\ inst.defines["VERSION"] = "version"
        /\ inst.commands = firstCommands(v.installerPath, appInfo)
        /\ ~Has(inst.defines, "BUILD_UNINSTALLER")
        /\ \A j \in 1..(i - 1) :
             LET stub == v.invocations[j] IN
             /\ stub.kind = "uninstaller"
             /\ stub.defines["UNINSTALLER_OUT_FILE"]
                  = stubOutFile(host, uninstallerPath(v.installerPath))
             /\ inst.defines["UNINSTALLER_OUT_FILE"] = uninstallerPath(v.installerPath)
             /\ Delete(Delete(inst.defines, "UNINSTALLER_OUT_FILE"), "VERSION")
                  = Delete(Delete(Delete(stub.defines, "UNINSTALLER_OUT_FILE"),
                                  "BUILD_UNINSTALLER"), "VERSION")

C37_Witness ==
  \E u \in UnitIds :
    /\ appInfo.shortVersion # Null
    /\ host # "win32"
    /\ Len(units[u].invocations) = 2
    /\ units[u].invocations[1].defines["VERSION"] = appInfo.shortVersion
    /\ units[u].invocations[1].commands.VIProductVersion = "shortVersion.windows"
    /\ units[u].invocations[2].kind = "installer"

\* C38: the probe of the output file takes only EBUSY for "locked": when
\* fs.open answered any other error, such as ENOENT, or opened the file, the
\* probe ends, makensis is started with no delay after that answer, and with
\* no delay at all when that answer was the first one.
C38_OnlyEbusyIsLocked ==
  \A u \in UnitIds :
    LET v == units[u] IN
    /\ v.lastOpen \in {"ENOENT", "opened"} =>
         /\ v.phase \in {"spawn", "compile"}
         /\ v.err = "none"
         /\ v.delays = v.busy
         /\ v.probes = 1 => v.delays = 0 /\ ~v.wasBusyBefore
    /\ v.phase = "backoff" => v.lastOpen = "EBUSY"

\* makensis is about to start after a single probe that answered ENOENT
C38_Witness ==
  \E u \in UnitIds :
    /\ units[u].phase = "spawn"
    /\ units[u].lastOpen = "ENOENT"
    /\ units[u].probes = 1
    /\ units[u].delays = 0

====
